---- MODULE Spec2Model ----
(***************************************************************************)
(* A model of 9gram, an SLR(1) parsing-table generator.                    *)
(*                                                                         *)
(* The pipeline of cmd/9gram (run): an input tree -> GenGrammar ->         *)
(* genFirst -> genFollow -> genLR0Automaton -> genSLRParsingTable.         *)
(* Every Go map iteration (`for ... := range m`) is a nondeterministic     *)
(* order.  sha256.Sum256 is taken to be injective on the byte strings it   *)
(* is given, so a digest is modelled by the sequence that was hashed; the  *)
(* four-byte prefix that LR0ItemID.num reads is NOT injective and is kept  *)
(* as a separate oracle (variable num4).                                   *)
(***************************************************************************)
EXTENDS Integers, Sequences, FiniteSets, TLC

(***************************************************************************)
(* Bounds of the model.                                                    *)
(***************************************************************************)
\* alternatives of a generated input tree
MaxAlts == 2
\* symbols of one alternative of a generated input tree
MaxRhsLen == 2
\* items of a list handed to newKernel in the kernel harness
MaxListLen == 3
\* values the four-byte prefix of an item identity ranges over in the kernel harness
NumRange == 2
\* calls of newKernel in one behaviour of SpecKernel
MaxCalls == 2
MaxRuns == 2
MaxProductions == 65537

(***************************************************************************)
(* Symbols: grammar/symbol.go                                              *)
(***************************************************************************)
symbolNil == 0
symbolEOF == 49153
symbolBaseMin == 1
symbolBaseMax == 16383
kindMaskTerminal == 32768
startMask == 16384

symbolKindNonTerminal == "non-terminal"
symbolKindTerminal == "terminal"

\* Symbol.describe: kind, isStart, isEOF, base of a 16-bit symbol
describe(s) ==
  LET kind == IF s >= kindMaskTerminal THEN symbolKindTerminal ELSE symbolKindNonTerminal
      flag == (s \div startMask) % 2 = 1
  IN [kind |-> kind,
      isStart |-> flag /\ kind = symbolKindNonTerminal,
      isEOF |-> flag /\ kind = symbolKindTerminal,
      base |-> s % startMask]

isNil(s) == describe(s).base = 0

isStart(s) == IF isNil(s) THEN FALSE ELSE describe(s).isStart

isEOF(s) == IF isNil(s) THEN FALSE ELSE describe(s).isEOF

isNonTerminal(s) == IF isNil(s) THEN FALSE ELSE describe(s).kind = symbolKindNonTerminal

isTerminal(s) == IF isNil(s) THEN FALSE ELSE ~isNonTerminal(s)

\* a newSymbol without the check of the base
newSymbol_unchecked(kind, start, base) ==
  [sym |-> ((IF kind = symbolKindTerminal THEN kindMaskTerminal ELSE 0)
            + (IF start THEN startMask ELSE 0) + base) % 65536,
   err |-> ""]

newSymbol(kind, start, base) ==
  IF base > symbolBaseMax
  THEN [sym |-> symbolNil, err |-> "a base of a symbol exceeds the limit"]
  ELSE [sym |-> (IF kind = symbolKindTerminal THEN kindMaskTerminal ELSE 0)
                + (IF start THEN startMask ELSE 0) + base,
        err |-> ""]

(***************************************************************************)
(* The symbol table: grammar/symbol.go                                     *)
(***************************************************************************)
newSymbolTable ==
  [text2Sym |-> <<>>, sym2Text |-> <<>>, nsymBase |-> symbolBaseMin, tsymBase |-> symbolBaseMin]

\* a registration that does not look the text up in text2Sym first
registerSymbol_noLookup(t, text, kind, start) ==
  LET base == IF kind = symbolKindTerminal THEN t.tsymBase ELSE t.nsymBase
      r == newSymbol(kind, start, base)
  IN [tab |-> [text2Sym |-> (text :> r.sym) @@ t.text2Sym,
               sym2Text |-> (r.sym :> text) @@ t.sym2Text,
               nsymBase |-> IF kind = symbolKindTerminal THEN t.nsymBase
                            ELSE (t.nsymBase + 1) % 65536,
               tsymBase |-> IF kind = symbolKindTerminal THEN (t.tsymBase + 1) % 65536
                            ELSE t.tsymBase],
      sym |-> r.sym, err |-> ""]

\* the common body of the three registration operations
registerSymbol(t, text, kind, start) ==
  IF text \in DOMAIN t.text2Sym
  THEN [tab |-> t, sym |-> t.text2Sym[text], err |-> ""]
  ELSE LET base == IF kind = symbolKindTerminal THEN t.tsymBase ELSE t.nsymBase
           r == newSymbol(kind, start, base)
       IN IF r.err # ""
          THEN [tab |-> t, sym |-> symbolNil, err |-> r.err]
          ELSE [tab |-> [text2Sym |-> (text :> r.sym) @@ t.text2Sym,
                         sym2Text |-> (r.sym :> text) @@ t.sym2Text,
                         nsymBase |-> IF kind = symbolKindTerminal THEN t.nsymBase
                                      ELSE (t.nsymBase + 1) % 65536,
                         tsymBase |-> IF kind = symbolKindTerminal THEN (t.tsymBase + 1) % 65536
                                      ELSE t.tsymBase],
                sym |-> r.sym, err |-> ""]

\* a registerStartSymbol that leaves the start bit out
registerStartSymbol_plain(t, text) == registerSymbol(t, text, symbolKindNonTerminal, FALSE)

registerStartSymbol(t, text) == registerSymbol(t, text, symbolKindNonTerminal, TRUE)

registerNonTerminalSymbol(t, text) == registerSymbol(t, text, symbolKindNonTerminal, FALSE)

\* a registerTerminalSymbol that leaves the base counter where it was
registerTerminalSymbol_sameBase(t, text) ==
  LET r == registerSymbol(t, text, symbolKindTerminal, FALSE)
  IN [r EXCEPT !.tab.tsymBase = t.tsymBase]

registerTerminalSymbol(t, text) == registerSymbol(t, text, symbolKindTerminal, FALSE)

ToSymbol(t, text) == IF text \in DOMAIN t.text2Sym THEN t.text2Sym[text] ELSE symbolNil

\* "" with ok = false in the code
ToText(t, sym) == IF sym \in DOMAIN t.sym2Text THEN t.sym2Text[sym] ELSE ""

(***************************************************************************)
(* Productions and the production set: grammar production file             *)
(***************************************************************************)
ProductionNumStart == 1
productionNumMin == 2

\* sha256 over the two-byte encodings of LHS and RHS: injective, so the
\* identity is the hashed sequence itself
genProductionID(lhs, rhs) == <<lhs>> \o rhs

newProduction(lhs, rhs) ==
  IF isNil(lhs) \/ \E i \in 1..Len(rhs) : isNil(rhs[i])
  THEN [prod |-> <<>>, err |-> "must be a non-nil symbol"]
  ELSE [prod |-> [id |-> genProductionID(lhs, rhs), num |-> 0, lhs |-> lhs,
                  rhs |-> rhs, rhsLen |-> Len(rhs)],
        err |-> ""]

isEmpty(p) == p.rhsLen <= 0

newProductionSet == [lhs2Prods |-> <<>>, id2Prod |-> <<>>, num |-> productionNumMin]

\* productionSet.append: the number an inserted production gets and the value
\* ps.num has afterwards (ProductionNum is a uint16)
numberFor(num, lhs) ==
  IF isStart(lhs)
  THEN [num |-> ProductionNumStart, next |-> num]
  ELSE [num |-> num, next |-> (num + 1) % 65536]

\* an append without the test for a known identity
append_unchecked(ps, prod) ==
  LET p == [prod EXCEPT !.num = numberFor(ps.num, prod.lhs).num]
      l == IF prod.lhs \in DOMAIN ps.lhs2Prods
           THEN Append(ps.lhs2Prods[prod.lhs], p)
           ELSE <<p>>
  IN [ps |-> [lhs2Prods |-> (prod.lhs :> l) @@ ps.lhs2Prods,
              id2Prod |-> (prod.id :> p) @@ ps.id2Prod,
              num |-> numberFor(ps.num, prod.lhs).next],
      ok |-> TRUE]

\* productionSet.append: the set after the call and whether the production was inserted
append(ps, prod) ==
  IF prod.id \in DOMAIN ps.id2Prod
  THEN [ps |-> ps, ok |-> FALSE]
  ELSE LET p == [prod EXCEPT !.num = numberFor(ps.num, prod.lhs).num]
           n == numberFor(ps.num, prod.lhs).next
           l == IF prod.lhs \in DOMAIN ps.lhs2Prods
                THEN Append(ps.lhs2Prods[prod.lhs], p)
                ELSE <<p>>
       IN [ps |-> [lhs2Prods |-> (prod.lhs :> l) @@ ps.lhs2Prods,
                   id2Prod |-> (prod.id :> p) @@ ps.id2Prod,
                   num |-> n],
           ok |-> TRUE]

findByLHS(ps, lhs) ==
  IF isNil(lhs) THEN <<>>
  ELSE IF lhs \in DOMAIN ps.lhs2Prods THEN ps.lhs2Prods[lhs] ELSE <<>>

\* productionSet.getAll: the keys of the map that the callers range over
getAll(ps) == DOMAIN ps.id2Prod

(***************************************************************************)
(* The grammar builder: grammar/grammar.go, GenGrammar.                    *)
(* An input tree (root) is the sequence of its production nodes; a node    *)
(* is [head |-> text, alts |-> sequence of alternatives], an alternative   *)
(* is the sequence of the texts of its symbol nodes.                       *)
(***************************************************************************)
\* a GenGrammar without its second loop
registerHeads_none(t, root, i) == [tab |-> t, err |-> ""]

RECURSIVE registerHeads(_, _, _)
\* second loop of GenGrammar: every head becomes a non-terminal
registerHeads(t, root, i) ==
  IF i > Len(root) THEN [tab |-> t, err |-> ""]
  ELSE LET r == registerNonTerminalSymbol(t, root[i].head)
       IN IF r.err # "" THEN [tab |-> t, err |-> r.err]
          ELSE registerHeads(r.tab, root, i + 1)

RECURSIVE registerRhs(_, _, _, _)
\* the symbols of one alternative, left to right (registerTerminalSymbol returns
\* the existing symbol of a text that is already registered)
registerRhs(t, alt, k, rhsSyms) ==
  IF k > Len(alt) THEN [tab |-> t, rhs |-> rhsSyms, err |-> ""]
  ELSE LET r == registerTerminalSymbol(t, alt[k])
       IN IF r.err # "" THEN [tab |-> t, rhs |-> rhsSyms, err |-> r.err]
          ELSE registerRhs(r.tab, alt, k + 1, Append(rhsSyms, r.sym))

RECURSIVE registerAlternatives(_, _, _, _, _)
\* the alternatives of one production node, in order
registerAlternatives(t, ps, lhsSym, alts, j) ==
  IF j > Len(alts) THEN [tab |-> t, prods |-> ps, err |-> ""]
  ELSE LET r == registerRhs(t, alts[j], 1, <<>>)
           np == newProduction(lhsSym, r.rhs)
       IN IF r.err # "" THEN [tab |-> t, prods |-> ps, err |-> r.err]
          ELSE IF np.err # "" THEN [tab |-> r.tab, prods |-> ps, err |-> np.err]
          ELSE registerAlternatives(r.tab, append(ps, np.prod).ps, lhsSym, alts, j + 1)

RECURSIVE registerProductions(_, _, _, _)
\* third loop of GenGrammar: the productions of every node, in order
registerProductions(t, ps, root, i) ==
  IF i > Len(root) THEN [tab |-> t, prods |-> ps, err |-> ""]
  ELSE LET r == registerAlternatives(t, ps, ToSymbol(t, root[i].head), root[i].alts, 1)
       IN IF r.err # "" THEN r
          ELSE registerProductions(r.tab, r.prods, root, i + 1)

noGrammar(e) ==
  [err |-> e, SymbolTable |-> newSymbolTable, ProductionSet |-> newProductionSet,
   AugmentedStartSymbol |-> symbolNil]

GenGrammarOf(root) ==
  LET a == registerStartSymbol(newSymbolTable, root[1].head \o "'")
      s == registerNonTerminalSymbol(a.tab, root[1].head)
      np == newProduction(a.sym, <<s.sym>>)
      ps1 == append(newProductionSet, np.prod).ps
      h == registerHeads(s.tab, root, 1)
      g == registerProductions(h.tab, ps1, root, 1)
  IN IF a.err # "" THEN noGrammar(a.err)
     ELSE IF s.err # "" THEN noGrammar(s.err)
     ELSE IF np.err # "" THEN noGrammar(np.err)
     ELSE IF h.err # "" THEN noGrammar(h.err)
     ELSE IF g.err # "" THEN noGrammar(g.err)
     ELSE [err |-> "", SymbolTable |-> g.tab, ProductionSet |-> g.prods,
           AugmentedStartSymbol |-> a.sym]

(***************************************************************************)
(* FIRST: grammar/first.go                                                 *)
(***************************************************************************)
newFirstEntry == [symbols |-> {}, empty |-> FALSE]

\* FirstEntry.add: the entry after the call and whether it grew
add(e, sym) == [e |-> [e EXCEPT !.symbols = @ \cup {sym}], changed |-> sym \notin e.symbols]

addEmpty(e) == [e |-> [e EXCEPT !.empty = TRUE], changed |-> ~e.empty]

mergeExceptEmpty(e, target) ==
  [e |-> [e EXCEPT !.symbols = @ \cup target.symbols],
   changed |-> ~(target.symbols \subseteq e.symbols)]

\* newFirst: an empty entry for every LHS of the production set
newFirst(ps) == [lhs \in { ps.id2Prod[id].lhs : id \in getAll(ps) } |-> newFirstEntry]

RECURSIVE genProdFirstScan(_, _, _, _)
\* the loop of genProdFirstEntry from RHS position i on.  acc is the entry of
\* prod.lhs (a pointer into the set: an RHS symbol equal to the LHS reads acc).
\* `changed` is assigned anew in every round, as in the source.
genProdFirstScan(fst, acc, prod, i) ==
  IF i > prod.rhsLen
  THEN LET r == addEmpty(acc) IN [acc |-> r.e, changed |-> r.changed, err |-> ""]
  ELSE LET rhsSym == prod.rhs[i]
       IN IF isTerminal(rhsSym)
          THEN LET r == add(acc, rhsSym) IN [acc |-> r.e, changed |-> r.changed, err |-> ""]
          ELSE IF rhsSym \notin DOMAIN fst
          THEN [acc |-> acc, changed |-> FALSE, err |-> "nil pointer dereference"]
          ELSE LET e == IF rhsSym = prod.lhs THEN acc ELSE fst[rhsSym]
                   m == mergeExceptEmpty(acc, e)
               IN IF ~e.empty
                  THEN [acc |-> m.e, changed |-> m.changed, err |-> ""]
                  ELSE genProdFirstScan(fst, m.e, prod, i + 1)

genProdFirstEntry(fst, acc, prod) ==
  IF isEmpty(prod)
  THEN LET r == addEmpty(acc) IN [acc |-> r.e, changed |-> r.changed, err |-> ""]
  ELSE genProdFirstScan(fst, acc, prod, 1)

RECURSIVE FirstGetScan(_, _, _, _)
\* the loop of First.Get over prod.rhs[head:], i being the 1-based position
FirstGetScan(fst, entry, prod, i) ==
  IF i > prod.rhsLen
  THEN [entry |-> addEmpty(entry).e, err |-> ""]
  ELSE LET sym == prod.rhs[i]
       IN IF isTerminal(sym)
          THEN [entry |-> add(entry, sym).e, err |-> ""]
          ELSE IF sym \notin DOMAIN fst
          THEN [entry |-> newFirstEntry, err |-> "FIRST set was not found"]
          ELSE LET e == fst[sym]
                   acc == [entry EXCEPT !.symbols = @ \cup e.symbols]
               IN IF ~e.empty
                  THEN [entry |-> acc, err |-> ""]
                  ELSE FirstGetScan(fst, acc, prod, i + 1)

\* First.Get(prod, head), head being the 0-based dot position
FirstGet(fst, prod, head) ==
  IF prod.rhsLen <= head
  THEN [entry |-> addEmpty(newFirstEntry).e, err |-> ""]
  ELSE FirstGetScan(fst, newFirstEntry, prod, head + 1)

(***************************************************************************)
(* FOLLOW: the fixed-point genFollow                                       *)
(***************************************************************************)
newFollowEntry == [symbols |-> {}, eof |-> FALSE]

\* a FollowEntry.addEOF that never sets the flag
addEOF_never(e) == [e |-> e, changed |-> FALSE]

addEOF(e) == [e |-> [e EXCEPT !.eof = TRUE], changed |-> ~e.eof]

\* FollowEntry.merge(fst, nil)
mergeFirst(e, fst) ==
  [e |-> [e EXCEPT !.symbols = @ \cup fst.symbols],
   changed |-> ~(fst.symbols \subseteq e.symbols)]

\* FollowEntry.merge(nil, flw)
mergeFollow(e, flw) ==
  [e |-> [symbols |-> e.symbols \cup flw.symbols, eof |-> e.eof \/ flw.eof],
   changed |-> ~(flw.symbols \subseteq e.symbols) \/ (flw.eof /\ ~e.eof)]

\* newFollow: an empty entry for every LHS of the production set
newFollow(ps) == [lhs \in { ps.id2Prod[id].lhs : id \in getAll(ps) } |-> newFollowEntry]

RECURSIVE followScanRhs(_, _, _, _, _, _, _)
\* the loop `for i, sym := range prod.rhs` of genFollow for the non-terminal
\* ntsym, from the 1-based position i on.  e is the entry of ntsym (a pointer
\* into the set: the entry of prod.lhs is e itself when prod.lhs = ntsym).
followScanRhs(fst, flw, e, ntsym, prod, i, more) ==
  IF i > prod.rhsLen THEN [e |-> e, more |-> more, err |-> ""]
  ELSE IF prod.rhs[i] # ntsym THEN followScanRhs(fst, flw, e, ntsym, prod, i + 1, more)
  ELSE LET g == FirstGet(fst, prod, i)
           m1 == mergeFirst(e, g.entry)
       IN IF g.err # "" THEN [e |-> e, more |-> more, err |-> g.err]
          ELSE IF ~g.entry.empty
          THEN followScanRhs(fst, flw, m1.e, ntsym, prod, i + 1, more \/ m1.changed)
          ELSE IF prod.lhs \notin DOMAIN flw
          THEN [e |-> m1.e, more |-> more \/ m1.changed, err |-> "FOLLOW set was not found"]
          ELSE LET l == IF prod.lhs = ntsym THEN m1.e ELSE flw[prod.lhs]
                   m2 == mergeFollow(m1.e, l)
               IN followScanRhs(fst, flw, m2.e, ntsym, prod, i + 1,
                                more \/ m1.changed \/ m2.changed)

(***************************************************************************)
(* LR(0) items, kernels and the automaton                                  *)
(***************************************************************************)
stateNumInitial == 0

\* a StateNum.next that does not advance
next_same(n) == n

\* StateNum.next
next(n) == n + 1

\* sha256 over the production identity and the 8-byte dot: injective, so the
\* identity of an item is the pair that was hashed
\* an item identity that leaves the dot out of the digest
genLR0ItemID_noDot(prod, dot) == <<prod.id, 0>>

genLR0ItemID(prod, dot) == <<prod.id, dot>>

newLR0Item(prod, dot) ==
  IF dot < 0 \/ dot > prod.rhsLen
  THEN [item |-> <<>>, err |-> "dot must be between 0 and rhsLen"]
  ELSE LET initial == isStart(prod.lhs) /\ dot = 0
       IN [item |-> [id |-> genLR0ItemID(prod, dot),
                     prod |-> prod.id,
                     dot |-> dot,
                     dottedSymbol |-> IF dot < prod.rhsLen THEN prod.rhs[dot + 1] ELSE symbolNil,
                     initial |-> initial,
                     reducible |-> dot = prod.rhsLen,
                     kernel |-> initial \/ dot > 0],
           err |-> ""]

RECURSIVE sortSlice(_, _)
\* what sort.Slice can leave of a map's values under
\* less(i, j) = m[i].id.num() < m[j].id.num(): every arrangement in which num
\* never decreases (the map is ranged over in any order and the sort is not
\* stable, so items of equal num end in any order).  n4 gives id.num().
sortSlice(m, n4) ==
  IF m = {} THEN { <<>> }
  ELSE LET least == { x \in m : \A y \in m : n4[x.id] <= n4[y.id] }
       IN UNION { { <<x>> \o t : t \in sortSlice(m \ {x}, n4) } : x \in least }

\* sha256 over the concatenated item identities: injective, so the identity
\* of a kernel is the sequence of the identities of its sorted items
genKernelID(sortedItems) == [i \in 1..Len(sortedItems) |-> sortedItems[i].id]

\* newKernel(items): the results the call can have
newKernel(items, n4) ==
  IF Len(items) <= 0
  THEN { [kernel |-> <<>>, err |-> "a kernel item is missing"] }
  ELSE IF \E i \in 1..Len(items) : ~items[i].kernel
  THEN { [kernel |-> <<>>, err |-> "not a kernel item"] }
  ELSE { [kernel |-> [ID |-> genKernelID(sorted), Items |-> sorted], err |-> ""] :
           sorted \in sortSlice({ items[i] : i \in 1..Len(items) }, n4) }

\* In the three loops of genClosure a value that the source assigns once is
\* bound once, as the one element of a set, and the result is the one element
\* of the set of results.
RECURSIVE closureProds(_, _, _)
\* genClosure: `for _, prod := range ps`, from position j on
closureProds(st, ps, j) ==
  IF j > Len(ps) THEN st
  ELSE CHOOSE r \in { closureProds(IF item.id \in now.knownItems THEN now
                                   ELSE [items |-> Append(now.items, item),
                                         knownItems |-> now.knownItems \cup {item.id},
                                         nextUncheckedItems |->
                                           Append(now.nextUncheckedItems, item)],
                                   ps, j + 1) :
                      now \in {st}, item \in {newLR0Item(ps[j], 0).item} } : TRUE

RECURSIVE closureRound(_, _, _, _)
\* genClosure: `for _, item := range uncheckedItems`, from position i on
closureRound(st, uncheckedItems, ps, i) ==
  IF i > Len(uncheckedItems) THEN st
  ELSE IF isTerminal(uncheckedItems[i].dottedSymbol)
  THEN closureRound(st, uncheckedItems, ps, i + 1)
  ELSE CHOOSE r \in { closureRound(now, uncheckedItems, ps, i + 1) :
                      now \in { closureProds(st, findByLHS(ps, uncheckedItems[i].dottedSymbol),
                                             1) } } : TRUE

RECURSIVE closureLoop(_, _, _, _)
\* genClosure: `for len(uncheckedItems) > 0`
closureLoop(items, knownItems, uncheckedItems, ps) ==
  IF Len(uncheckedItems) = 0 THEN items
  ELSE CHOOSE r \in { closureLoop(st.items, st.knownItems, st.nextUncheckedItems, ps) :
                      st \in { closureRound([items |-> items, knownItems |-> knownItems,
                                             nextUncheckedItems |-> <<>>],
                                            uncheckedItems, ps, 1) } } : TRUE

\* a genClosure that returns the kernel items alone
genClosure_kernelOnly(kernel, ps) == kernel.Items

\* genClosure(kernel, prods): the items of the closure, in the order found
genClosure(kernel, ps) == closureLoop(kernel.Items, {}, kernel.Items, ps)

RECURSIVE kernelItemMapFrom(_, _, _, _)
\* genNeighbourKernels: the first loop, from position i on; m maps a dotted
\* symbol to the list of the items with the dot moved over it
kernelItemMapFrom(m, items, ps, i) ==
  IF i > Len(items) THEN [m |-> m, err |-> ""]
  ELSE IF isNil(items[i].dottedSymbol) THEN kernelItemMapFrom(m, items, ps, i + 1)
  ELSE IF items[i].prod \notin DOMAIN ps.id2Prod THEN [m |-> m, err |-> "production was not found"]
  ELSE LET k == newLR0Item(ps.id2Prod[items[i].prod], items[i].dot + 1)
           sym == items[i].dottedSymbol
           l == IF sym \in DOMAIN m THEN m[sym] ELSE <<>>
       IN IF k.err # "" THEN [m |-> m, err |-> k.err]
          ELSE kernelItemMapFrom((sym :> Append(l, k.item)) @@ m, items, ps, i + 1)

RECURSIVE neighboursFrom(_, _, _)
\* genNeighbourKernels: the last loop over the symbols in ascending order,
\* from the symbols rest on: the lists of neighbours it can build
neighboursFrom(m, rest, n4) ==
  IF rest = {} THEN { [kernels |-> <<>>, err |-> ""] }
  ELSE LET sym == CHOOSE x \in rest : \A y \in rest : x <= y
       IN UNION { IF k.err # "" THEN { [kernels |-> <<>>, err |-> k.err] }
                  ELSE { IF t.err # "" THEN t
                         ELSE [kernels |-> <<[symbol |-> sym, kernel |-> k.kernel]>> \o t.kernels,
                               err |-> ""] :
                           t \in neighboursFrom(m, rest \ {sym}, n4) } :
                  k \in newKernel(m[sym], n4) }

genNeighbourKernels(items, ps, n4) ==
  LET r == kernelItemMapFrom(<<>>, items, ps, 1)
  IN IF r.err # "" THEN { [kernels |-> <<>>, err |-> r.err] }
     ELSE neighboursFrom(r.m, DOMAIN r.m, n4)

\* the last neighbour of a symbol: `next[n.symbol] = n.kernel.ID` overwrites
lastIndexOf(ns, sym) ==
  CHOOSE i \in 1..Len(ns) : ns[i].symbol = sym /\ \A j \in 1..Len(ns) : ns[j].symbol = sym => j <= i

\* a loop that takes the kernel items alone
reducibleOf_kernelOnly(items) ==
  { items[i].prod : i \in { j \in 1..Len(items) : items[j].reducible /\ items[j].kernel } }

\* genStateAndNeighbourKernels: the loop that fills reducible
reducibleOf(items) == { items[i].prod : i \in { j \in 1..Len(items) : items[j].reducible } }

\* genStateAndNeighbourKernels: the state (Num not yet set) and the kernels
\* of its neighbours, for every list of neighbours genNeighbourKernels can build
genStateAndNeighbourKernels(kernel, ps, n4) ==
  UNION {
    { IF n.err # "" THEN [state |-> <<>>, kernels |-> <<>>, err |-> n.err]
      ELSE [state |-> [ID |-> kernel.ID,
                       Items |-> kernel.Items,
                       Num |-> stateNumInitial,
                       Next |-> [sym \in { n.kernels[i].symbol : i \in 1..Len(n.kernels) } |->
                                   n.kernels[lastIndexOf(n.kernels, sym)].kernel.ID],
                       Reducible |-> reducibleOf(items)],
            kernels |-> [i \in 1..Len(n.kernels) |-> n.kernels[i].kernel],
            err |-> ""] :
      n \in genNeighbourKernels(items, ps, n4) } :
    items \in { genClosure(kernel, ps) } }

(***************************************************************************)
(* The SLR(1) table: grammar/slr.go                                        *)
(* A row of Action or GoTo is a slice that is only ever scanned for the    *)
(* entry of one symbol; it is kept as the set of its entries.              *)
(***************************************************************************)
ActionTypeShift == "shift"
ActionTypeReduce == "reduce"

\* the entry a scan of the row for sym stops at
entryOf(row, sym) == CHOOSE e \in row : e.Symbol = sym

\* ParsingTable.shift
shift(t, state, sym, nextState) ==
  IF \E e \in t.Action[state] : e.Symbol = sym
  THEN [t |-> t,
        err |-> IF entryOf(t.Action[state], sym).ActionType = ActionTypeReduce
                THEN "shift/reduce conflict"
                ELSE "an entry of a parsing table is already registerd"]
  ELSE [t |-> [t EXCEPT !.Action[state] =
                 @ \cup {[Symbol |-> sym, ActionType |-> ActionTypeShift,
                          State |-> nextState, Production |-> 0]}],
        err |-> ""]

\* a reduce that calls every occupied cell a reduce/reduce conflict
reduce_oneKind(t, state, sym, prod) ==
  IF \E e \in t.Action[state] : e.Symbol = sym
  THEN [t |-> t, err |-> "reduce/reduce conflict"]
  ELSE [t |-> [t EXCEPT !.Action[state] =
                 @ \cup {[Symbol |-> sym, ActionType |-> ActionTypeReduce,
                          State |-> 0, Production |-> prod]}],
        err |-> ""]

\* ParsingTable.reduce
reduce(t, state, sym, prod) ==
  IF \E e \in t.Action[state] : e.Symbol = sym
  THEN [t |-> t,
        err |-> IF entryOf(t.Action[state], sym).ActionType = ActionTypeReduce
                THEN "reduce/reduce conflict"
                ELSE "shift/reduce conflict"]
  ELSE [t |-> [t EXCEPT !.Action[state] =
                 @ \cup {[Symbol |-> sym, ActionType |-> ActionTypeReduce,
                          State |-> 0, Production |-> prod]}],
        err |-> ""]

\* a goTo that registers nothing
goTo_none(t, state, sym, nextState) == t

\* ParsingTable.goTo
goTo(t, state, sym, nextState) ==
  [t EXCEPT !.GoTo[state] = @ \cup {[Symbol |-> sym, State |-> nextState]}]

\* history: where a refused call of shift or reduce met a registered entry:
\* the state, the symbol, the entry found and the action that was refused
conflictAt(r, state, sym, refused) ==
  [t |-> r.t, err |-> r.err,
   at |-> [State |-> state, Symbol |-> sym, registered |-> entryOf(r.t.Action[state], sym),
           refused |-> refused]]

RECURSIVE slrNextLoop(_, _, _, _)
\* genSLRParsingTable: `for sym, kID := range state.Next` over the symbols
\* todo, in every order: the outcomes
slrNextLoop(t, states, state, todo) ==
  IF todo = {} THEN { [t |-> t, err |-> ""] }
  ELSE UNION {
         IF state.Next[sym] \notin DOMAIN states
         THEN { [t |-> t, err |-> "nil pointer dereference"] }
         ELSE IF isTerminal(sym)
         THEN LET r == shift(t, state.Num, sym, states[state.Next[sym]].Num)
              IN IF r.err # ""
                 THEN { conflictAt(r, state.Num, sym,
                                   [ActionType |-> ActionTypeShift,
                                    State |-> states[state.Next[sym]].Num, Production |-> 0]) }
                 ELSE slrNextLoop(r.t, states, state, todo \ {sym})
         ELSE slrNextLoop(goTo(t, state.Num, sym, states[state.Next[sym]].Num),
                          states, state, todo \ {sym}) :
         sym \in todo }

RECURSIVE slrFollowLoop(_, _, _, _, _)
\* genSLRParsingTable: `for sym := range flw.symbols` over the symbols todo,
\* in every order, and then the eof flag: the outcomes
slrFollowLoop(t, state, prod, flw, todo) ==
  IF todo = {}
  THEN { IF flw.eof
         THEN LET r == reduce(t, state.Num, symbolEOF, prod.num)
              IN IF r.err # ""
                 THEN conflictAt(r, state.Num, symbolEOF,
                                 [ActionType |-> ActionTypeReduce, State |-> 0, Production |-> prod.num])
                 ELSE r
         ELSE [t |-> t, err |-> ""] }
  ELSE UNION { LET r == reduce(t, state.Num, sym, prod.num)
               IN IF r.err # ""
                  THEN { conflictAt(r, state.Num, sym,
                                    [ActionType |-> ActionTypeReduce, State |-> 0,
                                     Production |-> prod.num]) }
                  ELSE slrFollowLoop(r.t, state, prod, flw, todo \ {sym}) :
               sym \in todo }

RECURSIVE slrReducibleLoop(_, _, _, _, _)
\* genSLRParsingTable: `for prodID := range state.Reducible` over the
\* productions todo, in every order: the outcomes
slrReducibleLoop(t, ps, flws, state, todo) ==
  IF todo = {} THEN { [t |-> t, err |-> ""] }
  ELSE UNION {
         IF prodID \notin DOMAIN ps.id2Prod \/ ps.id2Prod[prodID].lhs \notin DOMAIN flws
         THEN { [t |-> t, err |-> "nil pointer dereference"] }
         ELSE UNION { IF r.err # "" THEN { r }
                      ELSE slrReducibleLoop(r.t, ps, flws, state, todo \ {prodID}) :
                      r \in slrFollowLoop(t, state, ps.id2Prod[prodID],
                                          flws[ps.id2Prod[prodID].lhs],
                                          flws[ps.id2Prod[prodID].lhs].symbols) } :
         prodID \in todo }

\* genSLRParsingTable: one round of `for _, state := range automaton.states`
slrState(t, states, ps, flws, state) ==
  UNION { IF r.err # "" THEN { r }
          ELSE slrReducibleLoop(r.t, ps, flws, state, state.Reducible) :
          r \in slrNextLoop(t, states, state, DOMAIN state.Next) }

(***************************************************************************)
(* Input trees.                                                            *)
(***************************************************************************)
Node(h, as) == [head |-> h, alts |-> as]

\* e: e ADD t | t; t: t MUL f | f; f: LPAREN e RPAREN | NUMBER;
TreeExpr ==
  << Node("e", << <<"e", "ADD", "t">>, <<"t">> >>),
     Node("t", << <<"t", "MUL", "f">>, <<"f">> >>),
     Node("f", << <<"LPAREN", "e", "RPAREN">>, <<"NUMBER">> >>) >>

\* s: ;
TreeEmpty == << Node("s", << <<>> >>) >>

\* s: FOO | ;
TreeFooOrEmpty == << Node("s", << <<"FOO">>, <<>> >>) >>

\* s: a A; a: ;
TreeNullableHead == << Node("s", << <<"a", "A">> >>), Node("a", << <<>> >>) >>

\* e: e ADD e | NUMBER;
TreeAmbiguous == << Node("e", << <<"e", "ADD", "e">>, <<"NUMBER">> >>) >>

\* s: A B; s: A B;
TreeDuplicate == << Node("s", << <<"A", "B">> >>), Node("s", << <<"A", "B">> >>) >>

\* s: a b; a: A | ; b: B | ;      (nullable suffixes, FOLLOW through FOLLOW)
TreeNullableChain ==
  << Node("s", << <<"a", "b">> >>), Node("a", << <<"A">>, <<>> >>),
     Node("b", << <<"B">>, <<>> >>) >>

\* s: a | b; a: b A | ; b: a B | ;   (mutual recursion through nullable heads)
TreeCycle ==
  << Node("s", << <<"a">>, <<"b">> >>), Node("a", << <<"b", "A">>, <<>> >>),
     Node("b", << <<"a", "B">>, <<>> >>) >>

\* s: a A | b B | C a; a: X; b: X;   (a reduce/reduce free, two heads for one body)
TreeTwoHeads ==
  << Node("s", << <<"a", "A">>, <<"b", "B">> >>), Node("a", << <<"X">> >>),
     Node("b", << <<"X">> >>) >>

\* s: a | b; a: X; b: X;   (reduce/reduce conflict)
TreeReduceReduce ==
  << Node("s", << <<"a">>, <<"b">> >>), Node("a", << <<"X">> >>), Node("b", << <<"X">> >>) >>

\* s: a s a | ;  a: A;     (the same non-terminal twice in one alternative)
TreeTwice == << Node("s", << <<"a", "s", "a">>, <<>> >>), Node("a", << <<"A">> >>) >>

\* s: n; n: x B | B; x: A | ;   (a nullable non-terminal in front of a known terminal)
TreeMasked ==
  << Node("s", << <<"n">> >>), Node("n", << <<"x", "B">>, <<"B">> >>),
     Node("x", << <<"A">>, <<>> >>) >>

\* s: y m; m: n; n: x B; x: A | ; y: Y;   (FIRST(m) decides FOLLOW(y))
TreeMaskedFollow ==
  << Node("s", << <<"y", "m">> >>), Node("m", << <<"n">> >>), Node("n", << <<"x", "B">> >>),
     Node("x", << <<"A">>, <<>> >>), Node("y", << <<"Y">> >>) >>

\* s: x m; m: n; n: x B; x: A | ;   (shift A against reduce x -> empty on A)
TreeHiddenConflict ==
  << Node("s", << <<"x", "m">> >>), Node("m", << <<"n">> >>), Node("n", << <<"x", "B">> >>),
     Node("x", << <<"A">>, <<>> >>) >>

\* s: s ADD s | a | b; a: X; b: X;   (a shift/reduce conflict in one state and a
\* reduce/reduce conflict in another)
TreeBothKinds ==
  << Node("s", << <<"s", "ADD", "s">>, <<"a">>, <<"b">> >>), Node("a", << <<"X">> >>),
     Node("b", << <<"X">> >>) >>

\* e: e ADD e | e MUL e | NUMBER;   (shift/reduce conflicts in several cells)
TreeTwoOperators ==
  << Node("e", << <<"e", "ADD", "e">>, <<"e", "MUL", "e">>, <<"NUMBER">> >>) >>

\* s: n | n s; n: x B; x: A | ;   (FIRST(s) decides FOLLOW(n))
TreeStaleFirst ==
  << Node("s", << <<"n">>, <<"n", "s">> >>), Node("n", << <<"x", "B">> >>),
     Node("x", << <<"A">>, <<>> >>) >>

\* s: FOO;   (the grammar whose items newKernel is called on)
TreeFoo == << Node("s", << <<"FOO">> >>) >>

Corpus ==
  { TreeFoo, TreeMaskedFollow, TreeHiddenConflict, TreeMasked, TreeExpr, TreeEmpty, TreeFooOrEmpty, TreeNullableHead, TreeAmbiguous, TreeDuplicate,
    TreeNullableChain, TreeCycle, TreeTwoHeads, TreeReduceReduce, TreeTwice }

HeadTexts == {"s", "a"}
TermTexts == {"A"}

\* the alternatives of at most n symbols over the texts
AltsUpTo(texts, n) == UNION { [1..k -> texts] : k \in 0..n }

\* every tree of at most MaxAlts single-alternative production nodes whose
\* alternatives have at most MaxRhsLen symbols, the first head being "s"
GeneratedTrees ==
  LET nodes == { Node(h, <<alt>>) : h \in HeadTexts,
                                    alt \in AltsUpTo(HeadTexts \cup TermTexts, MaxRhsLen) }
  IN { t \in UNION { [1..k -> nodes] : k \in 1..MaxAlts } : t[1].head = "s" }

Inputs == Corpus \cup GeneratedTrees

\* the input trees the program is run on more than once
TwiceInputs ==
  { TreeFoo, TreeEmpty, TreeDuplicate, TreeAmbiguous, TreeTwoOperators, TreeBothKinds,
    TreeReduceReduce, TreeStaleFirst }

VARIABLES
  root,      \* the input tree
  pc,        \* the position of run / GenTable
  gram,      \* the result of GenGrammar
  first,     \* genFirst: cc.first.set
  fstTodo,   \* genFirst: productions the current pass has still to visit
  fstMore,   \* genFirst: more
  follow,    \* genFollow: cc.follow.set
  flwNtTodo, \* genFollow: non-terminals the current pass has still to visit
  flwCur,    \* genFollow: the non-terminal being visited (symbolNil between two)
  flwTodo,   \* genFollow: productions still to visit for flwCur
  flwMore,   \* genFollow: more
  num4,      \* LR0ItemID.num: the four-byte prefix of the identity of every item
  automaton, \* genLR0Automaton: automaton (initialState, states)
  currentState,         \* genLR0Automaton: currentState
  knownKernels,         \* genLR0Automaton: knownKernels
  uncheckedKernels,     \* genLR0Automaton: uncheckedKernels
  nextUncheckedKernels, \* genLR0Automaton: nextUncheckedKernels
  ukIdx,                \* genLR0Automaton: position of `range uncheckedKernels` (from 1)
  expanded,             \* history: the kernel identities in the order they were expanded
  ptab,      \* genSLRParsingTable: ptab
  slrTodo,   \* genSLRParsingTable: states `range automaton.states` has still to visit
  slrErr,    \* genSLRParsingTable: the error it returned ("" for none)
  kItems,    \* newKernel called on its own: items
  kCalls,    \* history: the calls of newKernel made on their own and what they returned
  slrConflict, \* history: the conflict genSLRParsingTable met (noConflict for none)
  tab,       \* GenTable: the *Table it returned (nilTable for nil)
  stdout,    \* what run printed with fmt.Println
  exitCode,  \* the exit code of the process (running before it has exited)
  runs,      \* history: the outcomes of the earlier runs on the same input tree
  psNum,     \* append on its own: ps.num
  psLen,     \* append on its own: len(ps.id2Prod)
  psLast,    \* append on its own: the number of the production inserted last
  psFalse,   \* history: the calls of append on its own that returned false
  stab,      \* registration on its own: the symbol table
  stCalls,   \* history: the last two registration calls and what they returned
  sbKind,    \* registration of new texts of one kind: the operation called
  sbBase,    \* registration of new texts of one kind: the base counter of the kind
  sbLen,     \* registration of new texts of one kind: len(text2Sym)
  sbLast,    \* history: what the last registration of a new text returned
  lexRoot,   \* GenGrammar with lexeme productions: the input tree
  lexGram    \* GenGrammar with lexeme productions: its result

vars ==
  <<root, pc, gram, first, fstTodo, fstMore, follow, flwNtTodo, flwCur, flwTodo, flwMore,
    num4, automaton, currentState, knownKernels, uncheckedKernels, nextUncheckedKernels,
    ukIdx, expanded, ptab, slrTodo, slrErr, kItems, kCalls, slrConflict, tab, stdout,
    exitCode, runs, psNum, psLen, psLast, psFalse, stab, stCalls, sbKind, sbBase, sbLen,
    sbLast, lexRoot, lexGram>>

firstVars == <<first, fstTodo, fstMore>>
followVars == <<follow, flwNtTodo, flwCur, flwTodo, flwMore>>
lr0Vars ==
  <<num4, automaton, currentState, knownKernels, uncheckedKernels, nextUncheckedKernels,
    ukIdx, expanded>>

slrVars == <<ptab, slrTodo, slrErr>>
kernelVars == <<kItems, kCalls>>
runVars == <<slrConflict, tab, stdout, exitCode, runs>>
appendVars == <<psNum, psLen, psLast, psFalse>>
symVars == <<stab, stCalls>>
baseVars == <<sbKind, sbBase, sbLen, sbLast>>
lexVars == <<lexRoot, lexGram>>
harnessVars == <<symVars, baseVars, lexVars>>

\* the values the variables of the separate harnesses have when they are not run
harnessIdle ==
  /\ stab = newSymbolTable
  /\ stCalls = <<>>
  /\ sbKind = "none"
  /\ sbBase = symbolBaseMin
  /\ sbLen = 0
  /\ sbLast = <<>>
  /\ lexRoot = <<>>
  /\ lexGram = <<>>

noConflict == <<>>
nilTable == <<>>
running == -1

noTable == [Action |-> <<>>, GoTo |-> <<>>, InitialState |-> stateNumInitial]

newAutomaton == [initialState |-> <<>>, states |-> <<>>]

\* the identities of all items of the grammar
ItemIDs(ps) ==
  UNION { { genLR0ItemID(ps.id2Prod[id], dot) : dot \in 0..ps.id2Prod[id].rhsLen } :
          id \in getAll(ps) }

\* the longest RHS of the production set
maxRhsLen(ps) ==
  CHOOSE n \in { ps.id2Prod[id].rhsLen : id \in getAll(ps) } :
    \A id \in getAll(ps) : ps.id2Prod[id].rhsLen <= n

\* Two assignments of pairwise different prefixes to the items of the grammar,
\* one the reverse of the other.  (The prefixes of the sha256 digests of the
\* items of the input trees of this model are pairwise different.)
DistinctNums(ps) ==
  LET rank == [id \in ItemIDs(ps) |-> ps.id2Prod[id[1]].num * (maxRhsLen(ps) + 1) + id[2]]
  IN { rank, [id \in ItemIDs(ps) |-> 0 - rank[id]] }

prods == gram.ProductionSet

Init ==
  /\ root \in Inputs
  /\ pc = "GenGrammar"
  /\ gram = noGrammar("")
  /\ first = <<>>
  /\ fstTodo = {}
  /\ fstMore = FALSE
  /\ follow = <<>>
  /\ flwNtTodo = {}
  /\ flwCur = symbolNil
  /\ flwTodo = {}
  /\ flwMore = FALSE
  /\ num4 = <<>>
  /\ automaton = newAutomaton
  /\ currentState = stateNumInitial
  /\ knownKernels = {}
  /\ uncheckedKernels = <<>>
  /\ nextUncheckedKernels = <<>>
  /\ ukIdx = 1
  /\ expanded = <<>>
  /\ ptab = noTable
  /\ slrTodo = {}
  /\ slrErr = ""
  /\ kItems = <<>>
  /\ kCalls = <<>>
  /\ slrConflict = noConflict
  /\ tab = nilTable
  /\ stdout = <<>>
  /\ exitCode = running
  /\ runs = <<>>
  /\ psNum = newProductionSet.num
  /\ psLen = 0
  /\ psLast = 0
  /\ psFalse = 0
  /\ harnessIdle

\* run: gram, err := grammar.GenGrammar(ast)
GenGrammar ==
  /\ pc = "GenGrammar"
  /\ gram' = GenGrammarOf(root)
  /\ pc' = IF gram'.err # "" THEN "failed" ELSE "genFirst"
  /\ UNCHANGED <<root, firstVars, followVars, lr0Vars, slrVars, kernelVars, appendVars, harnessVars, runVars>>

\* genFirst: cc := newFirstComContext(prods), and the start of the first pass
genFirstEnter ==
  /\ pc = "genFirst"
  /\ first' = newFirst(prods)
  /\ fstTodo' = getAll(prods)
  /\ fstMore' = FALSE
  /\ pc' = "genFirst.range"
  /\ UNCHANGED <<root, gram, followVars, lr0Vars, slrVars, kernelVars, appendVars, harnessVars, runVars>>

\* genFirst: one round of `for _, prod := range prods.getAll()`
genFirstVisit(id) ==
  /\ pc = "genFirst.range"
  /\ id \in fstTodo
  /\ LET prod == prods.id2Prod[id]
         r == genProdFirstEntry(first, first[prod.lhs], prod)
     IN IF r.err # ""
        THEN /\ pc' = "panic"
             /\ UNCHANGED <<first, fstTodo, fstMore>>
        ELSE /\ first' = [first EXCEPT ![prod.lhs] = r.acc]
             /\ fstMore' = (fstMore \/ r.changed)
             /\ fstTodo' = fstTodo \ {id}
             /\ pc' = pc
  /\ UNCHANGED <<root, gram, followVars, lr0Vars, slrVars, kernelVars, appendVars, harnessVars, runVars>>

\* genFirst: the end of a pass: `if !more { break }`, else the next pass
genFirstPassEnd ==
  /\ pc = "genFirst.range"
  /\ fstTodo = {}
  /\ IF fstMore
     THEN /\ fstTodo' = getAll(prods)
          /\ fstMore' = FALSE
          /\ pc' = pc
     ELSE /\ pc' = "genFollow"
          /\ UNCHANGED <<fstTodo, fstMore>>
  /\ UNCHANGED <<root, gram, first, followVars, lr0Vars, slrVars, kernelVars, appendVars, harnessVars, runVars>>

\* genFollow: ntsyms, cc := newFollowComContext(prods, first), start of the first pass
genFollowEnter ==
  /\ pc = "genFollow"
  /\ follow' = newFollow(prods)
  /\ flwNtTodo' = DOMAIN follow'
  /\ flwCur' = symbolNil
  /\ flwTodo' = {}
  /\ flwMore' = FALSE
  /\ pc' = "genFollow.range"
  /\ UNCHANGED <<root, gram, firstVars, lr0Vars, slrVars, kernelVars, appendVars, harnessVars, runVars>>

\* genFollow: a round of `for ntsym := range ntsyms` begins
genFollowPick(ntsym) ==
  /\ pc = "genFollow.range"
  /\ flwCur = symbolNil
  /\ ntsym \in flwNtTodo
  /\ IF ntsym \notin DOMAIN follow
     THEN /\ pc' = "failed"
          /\ UNCHANGED followVars
     ELSE LET r == IF isStart(ntsym) THEN addEOF(follow[ntsym])
                   ELSE [e |-> follow[ntsym], changed |-> FALSE]
          IN /\ follow' = [follow EXCEPT ![ntsym] = r.e]
             /\ flwMore' = (flwMore \/ r.changed)
             /\ flwCur' = ntsym
             /\ flwNtTodo' = flwNtTodo \ {ntsym}
             /\ flwTodo' = getAll(prods)
             /\ pc' = pc
  /\ UNCHANGED <<root, gram, firstVars, lr0Vars, slrVars, kernelVars, appendVars, harnessVars, runVars>>

\* genFollow: one round of `for _, prod := range prods.getAll()` for flwCur
genFollowVisit(id) ==
  /\ pc = "genFollow.range"
  /\ flwCur # symbolNil
  /\ id \in flwTodo
  /\ LET r == followScanRhs(first, follow, follow[flwCur], flwCur, prods.id2Prod[id], 1, flwMore)
     IN IF r.err # ""
        THEN /\ pc' = "failed"
             /\ UNCHANGED followVars
        ELSE /\ follow' = [follow EXCEPT ![flwCur] = r.e]
             /\ flwMore' = r.more
             /\ flwTodo' = flwTodo \ {id}
             /\ flwCur' = IF flwTodo' = {} THEN symbolNil ELSE flwCur
             /\ UNCHANGED flwNtTodo
             /\ pc' = pc
  /\ UNCHANGED <<root, gram, firstVars, lr0Vars, slrVars, kernelVars, appendVars, harnessVars, runVars>>

\* genFollow: the end of a pass: `if !more { break }`, else the next pass
genFollowPassEnd ==
  /\ pc = "genFollow.range"
  /\ flwCur = symbolNil
  /\ flwNtTodo = {}
  /\ IF flwMore
     THEN /\ flwNtTodo' = DOMAIN follow
          /\ flwMore' = FALSE
          /\ pc' = pc
     ELSE /\ pc' = "genLR0Automaton"
          /\ UNCHANGED <<flwNtTodo, flwMore>>
  /\ UNCHANGED <<root, gram, firstVars, follow, flwCur, flwTodo, lr0Vars, slrVars, kernelVars, appendVars, harnessVars, runVars>>

\* a loop that queues no neighbour
enqueueNeighbours_none(known, nextUnchecked, neighbours, i) ==
  [known |-> known, nextUnchecked |-> nextUnchecked]

RECURSIVE enqueueNeighbours(_, _, _, _)
\* genLR0Automaton: `for _, k := range neighbours`, from position i on
enqueueNeighbours(known, nextUnchecked, neighbours, i) ==
  IF i > Len(neighbours) THEN [known |-> known, nextUnchecked |-> nextUnchecked]
  ELSE IF neighbours[i].ID \in known
  THEN enqueueNeighbours(known, nextUnchecked, neighbours, i + 1)
  ELSE enqueueNeighbours(known \cup {neighbours[i].ID}, Append(nextUnchecked, neighbours[i]),
                         neighbours, i + 1)

\* genLR0Automaton up to the loop: the initial kernel
genLR0Enter ==
  /\ pc = "genLR0Automaton"
  /\ IF ~isStart(gram.AugmentedStartSymbol)
     THEN /\ pc' = "failed"
          /\ UNCHANGED lr0Vars
     ELSE IF Len(findByLHS(prods, gram.AugmentedStartSymbol)) = 0
     THEN /\ pc' = "panic"
          /\ UNCHANGED lr0Vars
     ELSE /\ num4' \in IF num4 = <<>> THEN DistinctNums(prods) ELSE {num4}
          /\ \E k \in newKernel(<<newLR0Item(findByLHS(prods, gram.AugmentedStartSymbol)[1], 0).item>>,
                                num4') :
               IF k.err # ""
               THEN /\ pc' = "failed"
                    /\ UNCHANGED <<automaton, currentState, knownKernels, uncheckedKernels,
                                   nextUncheckedKernels, ukIdx, expanded>>
               ELSE /\ automaton' = [initialState |-> k.kernel.ID, states |-> <<>>]
                    /\ currentState' = stateNumInitial
                    /\ knownKernels' = {k.kernel.ID}
                    /\ uncheckedKernels' = <<k.kernel>>
                    /\ nextUncheckedKernels' = <<>>
                    /\ ukIdx' = 1
                    /\ expanded' = <<>>
                    /\ pc' = "genLR0Automaton.range"
  /\ UNCHANGED <<root, gram, firstVars, followVars, slrVars, kernelVars, appendVars, harnessVars, runVars>>

\* genLR0Automaton: one round of `for _, k := range uncheckedKernels`
genLR0Expand ==
  /\ pc = "genLR0Automaton.range"
  /\ ukIdx <= Len(uncheckedKernels)
  /\ \E r \in genStateAndNeighbourKernels(uncheckedKernels[ukIdx], prods, num4) :
       IF r.err # ""
       THEN /\ pc' = "failed"
            /\ UNCHANGED <<automaton, currentState, knownKernels, nextUncheckedKernels,
                           ukIdx, expanded>>
       ELSE LET state == [r.state EXCEPT !.Num = currentState]
                q == enqueueNeighbours(knownKernels, nextUncheckedKernels, r.kernels, 1)
            IN /\ automaton' = [automaton EXCEPT !.states = (state.ID :> state) @@ @]
               /\ currentState' = next(currentState)
               /\ knownKernels' = q.known
               /\ nextUncheckedKernels' = q.nextUnchecked
               /\ ukIdx' = ukIdx + 1
               /\ expanded' = Append(expanded, state.ID)
               /\ pc' = pc
  /\ UNCHANGED <<root, gram, firstVars, followVars, num4, uncheckedKernels, slrVars, kernelVars, appendVars, harnessVars, runVars>>

\* genLR0Automaton: `uncheckedKernels = nextUncheckedKernels` and the test of
\* `for len(uncheckedKernels) > 0`
genLR0RoundEnd ==
  /\ pc = "genLR0Automaton.range"
  /\ ukIdx > Len(uncheckedKernels)
  /\ uncheckedKernels' = nextUncheckedKernels
  /\ nextUncheckedKernels' = <<>>
  /\ ukIdx' = 1
  /\ pc' = IF Len(nextUncheckedKernels) > 0 THEN pc ELSE "genSLRParsingTable"
  /\ UNCHANGED <<root, gram, firstVars, followVars, num4, automaton, currentState,
                 knownKernels, expanded, slrVars, kernelVars, appendVars, harnessVars, runVars>>

\* genSLRParsingTable up to the loop: the empty table
genSLREnter ==
  /\ pc = "genSLRParsingTable"
  /\ IF automaton.initialState \notin DOMAIN automaton.states
     THEN /\ pc' = "panic"
          /\ UNCHANGED slrVars
     ELSE /\ ptab' = [Action |-> [n \in 0..(Cardinality(DOMAIN automaton.states) - 1) |-> {}],
                      GoTo |-> [n \in 0..(Cardinality(DOMAIN automaton.states) - 1) |-> {}],
                      InitialState |-> automaton.states[automaton.initialState].Num]
          /\ slrTodo' = DOMAIN automaton.states
          /\ slrErr' = ""
          /\ pc' = "genSLRParsingTable.range"
  /\ UNCHANGED <<root, gram, firstVars, followVars, lr0Vars, kernelVars, appendVars, harnessVars, runVars>>

\* genSLRParsingTable: one round of `for _, state := range automaton.states`;
\* an error ends the call: `return nil, err`
genSLRVisit(kID) ==
  /\ pc = "genSLRParsingTable.range"
  /\ kID \in slrTodo
  /\ IF automaton.states[kID].Num \notin DOMAIN ptab.Action
     THEN /\ pc' = "panic"
          /\ UNCHANGED <<slrVars, slrConflict>>
     ELSE \E r \in slrState(ptab, automaton.states, prods, follow, automaton.states[kID]) :
            IF r.err = "nil pointer dereference"
            THEN /\ pc' = "panic"
                 /\ UNCHANGED <<slrVars, slrConflict>>
            ELSE IF r.err # ""
            THEN /\ pc' = "failed"
                 /\ slrErr' = r.err
                 /\ slrConflict' = r.at
                 /\ ptab' = noTable
                 /\ UNCHANGED slrTodo
            ELSE /\ ptab' = r.t
                 /\ slrTodo' = slrTodo \ {kID}
                 /\ UNCHANGED <<slrErr, slrConflict>>
                 /\ pc' = pc
  /\ UNCHANGED <<root, gram, firstVars, followVars, lr0Vars, kernelVars, appendVars, harnessVars, tab, stdout, exitCode, runs>>

\* genSLRParsingTable: `return ptab, nil`
genSLRReturn ==
  /\ pc = "genSLRParsingTable.range"
  /\ slrTodo = {}
  /\ tab' = [LR |-> ptab, LR0Automaton |-> automaton, Follow |-> follow, First |-> first]
  /\ pc' = "GenJSON"
  /\ UNCHANGED <<root, gram, firstVars, followVars, lr0Vars, slrVars, kernelVars, appendVars, harnessVars, slrConflict,
                 stdout, exitCode, runs>>

\* GenJSON: the slice prods, indexed by production number
productionsOf(ps) ==
  [n \in 0..Cardinality(getAll(ps)) |->
     IF \E id \in getAll(ps) : ps.id2Prod[id].num = n
     THEN (CHOOSE q \in { ps.id2Prod[id] : id \in getAll(ps) } : q.num = n).rhsLen
     ELSE 0]

\* GenJSON: the document that is marshalled
GenJSONOf(g, tb) ==
  [action |-> tb.LR.Action,
   goto |-> tb.LR.GoTo,
   state_count |-> Cardinality(DOMAIN tb.LR0Automaton.states),
   initial_state |-> tb.LR.InitialState,
   productions |-> productionsOf(g.ProductionSet),
   terminal_symbols |-> { g.SymbolTable.sym2Text[x] :
                          x \in { y \in DOMAIN g.SymbolTable.sym2Text : isTerminal(y) } },
   non_terminal_symbols |-> { g.SymbolTable.sym2Text[x] :
                              x \in { y \in DOMAIN g.SymbolTable.sym2Text :
                                      isNonTerminal(y) /\ ~isStart(y) } }]

\* run: d, err := grammar.GenJSON(gram, tab); fmt.Println(string(d)); return nil
GenJSON ==
  /\ pc = "GenJSON"
  /\ IF \E id \in getAll(prods) : prods.id2Prod[id].num > Cardinality(getAll(prods))
     THEN /\ pc' = "panic"
          /\ UNCHANGED stdout
     ELSE /\ stdout' = Append(stdout, GenJSONOf(gram, tab))
          /\ pc' = "doMain"
  /\ UNCHANGED <<root, gram, firstVars, followVars, lr0Vars, slrVars, kernelVars, appendVars, harnessVars, slrConflict,
                 tab, exitCode, runs>>

doMain_alwaysZero ==
  /\ pc \in {"doMain", "failed", "panic"}
  /\ exitCode' = 0
  /\ pc' = "exited"
  /\ UNCHANGED <<root, gram, firstVars, followVars, lr0Vars, slrVars, kernelVars, appendVars, harnessVars, slrConflict,
                 tab, stdout, runs>>

\* doMain: `return 1` when run returned an error, `return 0` otherwise, and
\* os.Exit; a panic ends the process with code 2
doMain ==
  /\ pc \in {"doMain", "failed", "panic"}
  /\ exitCode' = IF pc = "panic" THEN 2 ELSE IF pc = "failed" THEN 1 ELSE 0
  /\ pc' = "exited"
  /\ UNCHANGED <<root, gram, firstVars, followVars, lr0Vars, slrVars, kernelVars, appendVars, harnessVars, slrConflict,
                 tab, stdout, runs>>

Next ==
  \/ GenGrammar
  \/ genFirstEnter
  \/ \E id \in fstTodo : genFirstVisit(id)
  \/ genFirstPassEnd
  \/ genFollowEnter
  \/ \E ntsym \in flwNtTodo : genFollowPick(ntsym)
  \/ \E id \in flwTodo : genFollowVisit(id)
  \/ genFollowPassEnd
  \/ genLR0Enter
  \/ genLR0Expand
  \/ genLR0RoundEnd
  \/ genSLREnter
  \/ \E kID \in slrTodo : genSLRVisit(kID)
  \/ genSLRReturn
  \/ GenJSON
  \/ doMain

Spec == Init /\ [][Next]_vars

\* ---- GenTable on its own, taking every step it can ----
\* GenTable is one sequential call on the grammar GenGrammar returned: a step
\* that can be taken is taken, so its behaviours are the ones that are weakly
\* fair to its steps.

\* left recursion, mutual recursion through nullable heads, a non-terminal
\* twice in one alternative and a nullable non-terminal in front of a terminal
LiveInputs == {TreeEmpty, TreeFoo, TreeAmbiguous, TreeCycle, TreeTwice, TreeStaleFirst}

InitLive ==
  /\ root \in LiveInputs
  /\ gram = GenGrammarOf(root)
  /\ pc = "genFirst"
  /\ first = <<>>
  /\ fstTodo = {}
  /\ fstMore = FALSE
  /\ follow = <<>>
  /\ flwNtTodo = {}
  /\ flwCur = symbolNil
  /\ flwTodo = {}
  /\ flwMore = FALSE
  /\ num4 = <<>>
  /\ automaton = newAutomaton
  /\ currentState = stateNumInitial
  /\ knownKernels = {}
  /\ uncheckedKernels = <<>>
  /\ nextUncheckedKernels = <<>>
  /\ ukIdx = 1
  /\ expanded = <<>>
  /\ ptab = noTable
  /\ slrTodo = {}
  /\ slrErr = ""
  /\ kItems = <<>>
  /\ kCalls = <<>>
  /\ slrConflict = noConflict
  /\ tab = nilTable
  /\ stdout = <<>>
  /\ exitCode = running
  /\ runs = <<>>
  /\ psNum = newProductionSet.num
  /\ psLen = 0
  /\ psLast = 0
  /\ psFalse = 0
  /\ harnessIdle

\* GenTable: genFirst, genFollow, genLR0Automaton, genSLRParsingTable
NextLive ==
  \/ genFirstEnter
  \/ \E id \in fstTodo : genFirstVisit(id)
  \/ genFirstPassEnd
  \/ genFollowEnter
  \/ \E ntsym \in flwNtTodo : genFollowPick(ntsym)
  \/ \E id \in flwTodo : genFollowVisit(id)
  \/ genFollowPassEnd
  \/ genLR0Enter
  \/ genLR0Expand
  \/ genLR0RoundEnd
  \/ genSLREnter
  \/ \E kID \in slrTodo : genSLRVisit(kID)
  \/ genSLRReturn

SpecLive == InitLive /\ [][NextLive]_vars /\ WF_vars(NextLive)

\* ---- the program run again on the same input tree ----

InitTwice ==
  /\ root \in TwiceInputs
  /\ pc = "GenGrammar"
  /\ gram = noGrammar("")
  /\ first = <<>>
  /\ fstTodo = {}
  /\ fstMore = FALSE
  /\ follow = <<>>
  /\ flwNtTodo = {}
  /\ flwCur = symbolNil
  /\ flwTodo = {}
  /\ flwMore = FALSE
  /\ num4 = <<>>
  /\ automaton = newAutomaton
  /\ currentState = stateNumInitial
  /\ knownKernels = {}
  /\ uncheckedKernels = <<>>
  /\ nextUncheckedKernels = <<>>
  /\ ukIdx = 1
  /\ expanded = <<>>
  /\ ptab = noTable
  /\ slrTodo = {}
  /\ slrErr = ""
  /\ kItems = <<>>
  /\ kCalls = <<>>
  /\ slrConflict = noConflict
  /\ tab = nilTable
  /\ stdout = <<>>
  /\ exitCode = running
  /\ runs = <<>>
  /\ psNum = newProductionSet.num
  /\ psLen = 0
  /\ psLast = 0
  /\ psFalse = 0
  /\ harnessIdle

\* history: what a finished run leaves behind
outcome ==
  [gram |-> gram, first |-> first, follow |-> follow, automaton |-> automaton, tab |-> tab,
   slrErr |-> slrErr, slrConflict |-> slrConflict, stdout |-> stdout, exitCode |-> exitCode]

\* the process has exited and main is started again on the same tree; the
\* digests of the items (num4) are the same in every run
runAgain ==
  /\ pc = "exited"
  /\ Len(runs) + 1 < MaxRuns
  /\ runs' = Append(runs, outcome)
  /\ pc' = "GenGrammar"
  /\ gram' = noGrammar("")
  /\ first' = <<>>
  /\ fstTodo' = {}
  /\ fstMore' = FALSE
  /\ follow' = <<>>
  /\ flwNtTodo' = {}
  /\ flwCur' = symbolNil
  /\ flwTodo' = {}
  /\ flwMore' = FALSE
  /\ automaton' = newAutomaton
  /\ currentState' = stateNumInitial
  /\ knownKernels' = {}
  /\ uncheckedKernels' = <<>>
  /\ nextUncheckedKernels' = <<>>
  /\ ukIdx' = 1
  /\ expanded' = <<>>
  /\ ptab' = noTable
  /\ slrTodo' = {}
  /\ slrErr' = ""
  /\ slrConflict' = noConflict
  /\ tab' = nilTable
  /\ stdout' = <<>>
  /\ exitCode' = running
  /\ UNCHANGED <<root, num4, kernelVars, appendVars, harnessVars>>

NextTwice == Next \/ runAgain

SpecTwice == InitTwice /\ [][NextTwice]_vars

(***************************************************************************)
(* newKernel called on its own, on lists of the items of a grammar, the    *)
(* four-byte prefixes of the item identities being any values, equal ones  *)
(* included.                                                               *)
(***************************************************************************)
\* every item of the production set
allItems(ps) ==
  UNION { { newLR0Item(ps.id2Prod[id], dot).item : dot \in 0..ps.id2Prod[id].rhsLen } :
          id \in getAll(ps) }

\* the lists of at most MaxListLen items
itemLists(ps) == UNION { [1..n -> allItems(ps)] : n \in 0..MaxListLen }

InitKernel ==
  /\ root = TreeFoo
  /\ pc = "newKernel"
  /\ gram = GenGrammarOf(TreeFoo)
  /\ first = <<>>
  /\ fstTodo = {}
  /\ fstMore = FALSE
  /\ follow = <<>>
  /\ flwNtTodo = {}
  /\ flwCur = symbolNil
  /\ flwTodo = {}
  /\ flwMore = FALSE
  /\ num4 \in [ItemIDs(GenGrammarOf(TreeFoo).ProductionSet) -> 0..(NumRange - 1)]
  /\ automaton = newAutomaton
  /\ currentState = stateNumInitial
  /\ knownKernels = {}
  /\ uncheckedKernels = <<>>
  /\ nextUncheckedKernels = <<>>
  /\ ukIdx = 1
  /\ expanded = <<>>
  /\ ptab = noTable
  /\ slrTodo = {}
  /\ slrErr = ""
  /\ kItems \in itemLists(GenGrammarOf(TreeFoo).ProductionSet)
  /\ kCalls = <<>>
  /\ slrConflict = noConflict
  /\ tab = nilTable
  /\ stdout = <<>>
  /\ exitCode = running
  /\ runs = <<>>
  /\ psNum = newProductionSet.num
  /\ psLen = 0
  /\ psLast = 0
  /\ psFalse = 0
  /\ harnessIdle

\* k, err := newKernel(items)
newKernelCall ==
  /\ pc = "newKernel"
  /\ \E r \in newKernel(kItems, num4) :
       kCalls' = Append(kCalls, [items |-> kItems, kernel |-> r.kernel, err |-> r.err])
  /\ pc' = "newKernel.returned"
  /\ UNCHANGED <<root, gram, firstVars, followVars, lr0Vars, slrVars, kItems, appendVars, harnessVars, runVars>>

\* the caller picks the items of its next call
newKernelAgain ==
  /\ pc = "newKernel.returned"
  /\ Len(kCalls) < MaxCalls
  /\ kItems' \in itemLists(prods)
  /\ pc' = "newKernel"
  /\ UNCHANGED <<root, gram, firstVars, followVars, lr0Vars, slrVars, kCalls, appendVars, harnessVars, runVars>>

NextKernel ==
  \/ newKernelCall
  \/ newKernelAgain

SpecKernel == InitKernel /\ [][NextKernel]_vars

(***************************************************************************)
(* The sets the claims speak of, defined from the grammar alone.           *)
(***************************************************************************)
\* the productions of the grammar
P == { prods.id2Prod[id] : id \in getAll(prods) }

\* the longest RHS
MaxOcc == IF P = {} THEN 0 ELSE CHOOSE n \in { p.rhsLen : p \in P } : \A p \in P : p.rhsLen <= n

\* the non-terminals that head a production
Heads == { p.lhs : p \in P }

RECURSIVE NullableFrom(_)
\* the non-terminals that derive the empty string: the least set closed under
\* "every RHS symbol is in the set"
NullableFrom(N) ==
  LET N2 == N \cup { p.lhs : p \in { q \in P : \A i \in 1..Len(q.rhs) : q.rhs[i] \in N } }
  IN IF N2 = N THEN N ELSE NullableFrom(N2)

Nullable == NullableFrom({})

RECURSIVE SeqFirst(_, _, _)
\* the terminals that begin rhs[i..] when F gives those of the non-terminals
SeqFirst(F, rhs, i) ==
  IF i > Len(rhs) THEN {}
  ELSE IF isTerminal(rhs[i]) THEN {rhs[i]}
  ELSE (IF rhs[i] \in DOMAIN F THEN F[rhs[i]] ELSE {})
       \cup (IF rhs[i] \in Nullable THEN SeqFirst(F, rhs, i + 1) ELSE {})

RECURSIVE FirstFrom(_)
\* the least solution of FIRST(X) = union of SeqFirst(alpha) over X -> alpha,
\* by simultaneous iteration from the empty sets
FirstFrom(F) ==
  LET F2 == [X \in Heads |-> F[X] \cup UNION { SeqFirst(F, p.rhs, 1) : p \in { q \in P : q.lhs = X } }]
  IN IF F2 = F THEN F ELSE FirstFrom(F2)

LeastFirst == FirstFrom([X \in Heads |-> {}])

SuffixNullable(rhs, i) == \A k \in i..Len(rhs) : rhs[k] \in Nullable

slrFailed == slrErr # ""

slrSucceeded == tab # nilTable

genLR0Returned == pc \in {"genSLRParsingTable", "genSLRParsingTable.range"} \/ slrSucceeded \/ slrFailed

genFollowReturned == pc \in {"genLR0Automaton", "genLR0Automaton.range"} \/ genLR0Returned

genFirstReturned == pc \in {"genFollow", "genFollow.range"} \/ genFollowReturned

\* C3: after genFirst, First.Get(prod, dot) is the FIRST set of RHS[dot:] and
\* empty tells whether that suffix derives the empty string, whatever the
\* order the productions were visited in.
C3_FirstGetIsLeastFixedPoint ==
  genFirstReturned =>
    \A p \in P : \A dot \in 0..p.rhsLen :
      FirstGet(first, p, dot) =
        [entry |-> [symbols |-> SeqFirst(LeastFirst, p.rhs, dot + 1),
                    empty |-> SuffixNullable(p.rhs, dot + 1)],
         err |-> ""]

\* the occurrences of N: the pairs of a production and a position of its RHS
Occurrences(N) == { <<p, i>> \in P \X (1..MaxOcc) : i <= p.rhsLen /\ p.rhs[i] = N }

\* what one application of the FOLLOW equations adds to the entry of N, given
\* the entries W: FIRST(beta) for every occurrence A -> alpha N beta, and
\* FOLLOW(A) when beta derives the empty string
FollowStep(W, N) ==
  LET through == { o \in Occurrences(N) : SuffixNullable(o[1].rhs, o[2] + 1) }
  IN [symbols |-> W[N].symbols
                  \cup UNION { SeqFirst(LeastFirst, o[1].rhs, o[2] + 1) : o \in Occurrences(N) }
                  \cup UNION { W[o[1].lhs].symbols : o \in through },
      eof |-> W[N].eof \/ isStart(N) \/ \E o \in through : W[o[1].lhs].eof]

RECURSIVE FollowFrom(_)
\* the least solution of the FOLLOW equations, by simultaneous iteration
FollowFrom(W) ==
  LET W2 == [N \in Heads |-> FollowStep(W, N)]
  IN IF W2 = W THEN W ELSE FollowFrom(W2)

LeastFollow == FollowFrom([N \in Heads |-> newFollowEntry])

\* the same equations with First.Get on the result of genFirst for FIRST(beta)
FollowStepGiven(W, N) ==
  LET through == { o \in Occurrences(N) : FirstGet(first, o[1], o[2]).entry.empty }
  IN [symbols |-> W[N].symbols
                  \cup UNION { FirstGet(first, o[1], o[2]).entry.symbols : o \in Occurrences(N) }
                  \cup UNION { W[o[1].lhs].symbols : o \in through },
      eof |-> W[N].eof \/ isStart(N) \/ \E o \in through : W[o[1].lhs].eof]

RECURSIVE FollowFromGiven(_)
FollowFromGiven(W) ==
  LET W2 == [N \in Heads |-> FollowStepGiven(W, N)]
  IN IF W2 = W THEN W ELSE FollowFromGiven(W2)

\* genFollow alone: its result is the least solution over the FIRST sets it
\* is given, whatever the order of its visits
FollowIsLeastOverGivenFirst ==
  genFollowReturned => follow = FollowFromGiven([N \in Heads |-> newFollowEntry])

\* C4: after genFollow, the FOLLOW entry of every non-terminal is the least
\* solution of the FOLLOW equations: eof for the augmented start symbol,
\* FIRST(beta) for every occurrence A -> alpha N beta, FOLLOW(A) with its eof
\* flag when beta is empty or nullable, and nothing else, whatever the order
\* of the visits.
C4_FollowIsLeastSolution ==
  genFollowReturned => follow = LeastFollow

(***************************************************************************)
(* The canonical LR(0) collection, defined from the grammar alone.  An     *)
(* item is the pair of a production identity and a dot.                    *)
(***************************************************************************)
\* the symbol right after the dot of an item, symbolNil at the end
afterDot(it) ==
  IF it[2] < prods.id2Prod[it[1]].rhsLen THEN prods.id2Prod[it[1]].rhs[it[2] + 1] ELSE symbolNil

RECURSIVE Closure(_)
\* the least set holding I and, for every item with a non-terminal X after
\* the dot, the dot-0 item of every production of X
Closure(I) ==
  LET J == I \cup { <<p.id, 0>> : p \in { q \in P : \E it \in I : afterDot(it) = q.lhs } }
  IN IF J = I THEN I ELSE Closure(J)

\* GOTO: the items of closure(K) with x after the dot, the dot moved over x
Goto(K, x) == { <<it[1], it[2] + 1>> : it \in { c \in Closure(K) : afterDot(c) = x } }

\* the symbols of the grammar
GrammarSymbols == UNION { { p.lhs } \cup { p.rhs[i] : i \in 1..p.rhsLen } : p \in P }

\* { S' -> . S }
InitialKernel == { <<p.id, 0>> : p \in { q \in P : q.lhs = gram.AugmentedStartSymbol } }

RECURSIVE ReachableFrom(_)
\* the kernels reachable from the kernels S by GOTO
ReachableFrom(S) ==
  LET T == S \cup ({ Goto(K, x) : K \in S, x \in GrammarSymbols } \ { {} })
  IN IF T = S THEN S ELSE ReachableFrom(T)

CanonicalKernels == ReachableFrom({ InitialKernel })

\* the kernel of a state as a set of items
kernelOf(st) == { st.Items[i].id : i \in 1..Len(st.Items) }

\* the items a kernel identity was made of
itemsOfID(kID) == { kID[i] : i \in 1..Len(kID) }

states == automaton.states

\* the item (lhs -> rhs, dot) of the grammar, symbols given by their texts
testItem(lhs, dot, rhs) ==
  <<genProductionID(ToSymbol(gram.SymbolTable, lhs),
                    [i \in 1..Len(rhs) |-> ToSymbol(gram.SymbolTable, rhs[i])]), dot>>

\* TestGenLR0Automaton: expectedKernels
expectedKernels ==
  << { testItem("e'", 0, <<"e">>) },
     { testItem("e'", 1, <<"e">>), testItem("e", 1, <<"e", "ADD", "t">>) },
     { testItem("e", 1, <<"t">>), testItem("t", 1, <<"t", "MUL", "f">>) },
     { testItem("t", 1, <<"f">>) },
     { testItem("f", 1, <<"LPAREN", "e", "RPAREN">>) },
     { testItem("f", 1, <<"NUMBER">>) },
     { testItem("e", 2, <<"e", "ADD", "t">>) },
     { testItem("t", 2, <<"t", "MUL", "f">>) },
     { testItem("e", 1, <<"e", "ADD", "t">>), testItem("f", 2, <<"LPAREN", "e", "RPAREN">>) },
     { testItem("e", 3, <<"e", "ADD", "t">>), testItem("t", 1, <<"t", "MUL", "f">>) },
     { testItem("t", 3, <<"t", "MUL", "f">>) },
     { testItem("f", 3, <<"LPAREN", "e", "RPAREN">>) } >>

\* TestGenLR0Automaton: nextStates of expectedStates, as triples of the
\* kernel number, the symbol and the number of the next kernel
expectedNext ==
  { <<0, "e", 1>>, <<0, "t", 2>>, <<0, "f", 3>>, <<0, "LPAREN", 4>>, <<0, "NUMBER", 5>>,
    <<1, "ADD", 6>>,
    <<2, "MUL", 7>>,
    <<4, "e", 8>>, <<4, "t", 2>>, <<4, "f", 3>>, <<4, "LPAREN", 4>>, <<4, "NUMBER", 5>>,
    <<6, "t", 9>>, <<6, "f", 3>>, <<6, "LPAREN", 4>>, <<6, "NUMBER", 5>>,
    <<7, "f", 10>>, <<7, "LPAREN", 4>>, <<7, "NUMBER", 5>>,
    <<8, "ADD", 6>>, <<8, "RPAREN", 11>>,
    <<9, "MUL", 7>> }

\* the transitions of the automaton as triples of kernel, symbol, kernel
transitions ==
  UNION { { <<kernelOf(states[k]), x, itemsOfID(states[k].Next[x])>> : x \in DOMAIN states[k].Next } :
          k \in DOMAIN states }

C8_ReducibleIsClosureItemsAtEnd ==
  \A k \in DOMAIN states :
    states[k].Reducible =
      { it[1] : it \in { c \in Closure(kernelOf(states[k])) : c[2] = prods.id2Prod[c[1]].rhsLen } }

\* a state has a reducible empty production that is not in its kernel
C8_Witness ==
  \E k \in DOMAIN states : \E id \in states[k].Reducible :
    /\ isEmpty(prods.id2Prod[id])
    /\ <<id, 0>> \notin kernelOf(states[k])

\* C9: in the automaton genLR0Automaton returns, every kernel identity in a
\* Next map and the initial kernel identity are keys of the states map.
C9_NextAndInitialAreStates ==
  genLR0Returned =>
    /\ automaton.initialState \in DOMAIN states
    /\ \A k \in DOMAIN states : \A x \in DOMAIN states[k].Next : states[k].Next[x] \in DOMAIN states

\* the returned automaton has a state that is its own successor and a state
\* that two different states lead to
C9_Witness ==
  /\ genLR0Returned
  /\ \E k \in DOMAIN states : \E x \in DOMAIN states[k].Next : states[k].Next[x] = k
  /\ \E k1, k2 \in DOMAIN states : \E x \in DOMAIN states[k1].Next \cap DOMAIN states[k2].Next :
       k1 # k2 /\ states[k1].Next[x] = states[k2].Next[x]

\* C10: states are numbered in the order their kernels are taken from the
\* queue: the i-th kernel expanded has number i-1 (the initial kernel 0), no
\* kernel is expanded twice, and the numbers of the states are exactly
\* 0..|states|-1.
C10_NumberedInDequeueOrder ==
  /\ \A i \in 1..Len(expanded) : expanded[i] \in DOMAIN states /\ states[expanded[i]].Num = i - 1
  /\ \A i, j \in 1..Len(expanded) : expanded[i] = expanded[j] => i = j
  /\ Len(expanded) > 0 => expanded[1] = automaton.initialState
  /\ { states[k].Num : k \in DOMAIN states } = 0..(Cardinality(DOMAIN states) - 1)
  /\ \A k1, k2 \in DOMAIN states : states[k1].Num = states[k2].Num => k1 = k2
  /\ DOMAIN states = { expanded[i] : i \in 1..Len(expanded) }

\* the automaton is returned with more than two states, one of them reached
\* again after it was queued
C10_Witness ==
  /\ genLR0Returned
  /\ Len(expanded) > 2
  /\ \E k \in DOMAIN states : \E x \in DOMAIN states[k].Next :
       states[states[k].Next[x]].Num <= states[k].Num

(***************************************************************************)
(* The SLR(1) table of the grammar.                                        *)
(***************************************************************************)
Terminals == { x \in GrammarSymbols : isTerminal(x) }

NonTerminals == { x \in GrammarSymbols : isNonTerminal(x) }

\* the columns FOLLOW entry e stands for, symbolEOF standing for the eof flag
columns(e) == e.symbols \cup (IF e.eof THEN { symbolEOF } ELSE {})

shiftEntry(y, n) == [Symbol |-> y, ActionType |-> ActionTypeShift, State |-> n, Production |-> 0]

reduceEntry(y, p) == [Symbol |-> y, ActionType |-> ActionTypeReduce, State |-> 0, Production |-> p]

\* the ACTION row of state st when F gives the FOLLOW entries
actionRow(st, F) ==
  { shiftEntry(y, states[st.Next[y]].Num) : y \in DOMAIN st.Next \cap Terminals }
  \cup UNION { { reduceEntry(y, prods.id2Prod[p].num) : y \in columns(F[prods.id2Prod[p].lhs]) } :
               p \in st.Reducible }

\* the GOTO row of state st
gotoRow(st) == { [Symbol |-> X, State |-> states[st.Next[X]].Num] : X \in DOMAIN st.Next \cap NonTerminals }

\* the table holds the rows of F and no cell holds two actions
tableIs(F) ==
  \A k \in DOMAIN states :
    /\ ptab.Action[states[k].Num] = actionRow(states[k], F)
    /\ ptab.GoTo[states[k].Num] = gotoRow(states[k])
    /\ \A e1, e2 \in ptab.Action[states[k].Num] : e1.Symbol = e2.Symbol => e1 = e2
    /\ \A e1, e2 \in ptab.GoTo[states[k].Num] : e1.Symbol = e2.Symbol => e1 = e2

\* genSLRParsingTable alone: the table holds the entries of the FOLLOW
\* entries it is given
TableIsOverGivenFollow == slrSucceeded => tableIs(follow)

\* C1: when genSLRParsingTable succeeds, ACTION[s,y] is shift n iff s.Next[y]
\* is the kernel of state n, reduce p iff p is in s.Reducible and y is in
\* FOLLOW(LHS(p)) (EOF for the eof flag), GOTO[s,X] is n iff s.Next[X] is the
\* kernel of state n, every other cell is empty and no cell holds two actions.
C1_TableHoldsExactlySLREntries == slrSucceeded => tableIs(LeastFollow)

\* some state has a transition on a terminal y and a reducible production
\* whose head has y in its FOLLOW entry
shiftReduceSituation(F) ==
  \E k \in DOMAIN states : \E y \in DOMAIN states[k].Next \cap Terminals :
    \E p \in states[k].Reducible : y \in F[prods.id2Prod[p].lhs].symbols

\* some state has two reducible productions whose heads share a FOLLOW column
reduceReduceSituation(F) ==
  \E k \in DOMAIN states : \E p, q \in states[k].Reducible :
    /\ p # q
    /\ columns(F[prods.id2Prod[p].lhs]) \cap columns(F[prods.id2Prod[q].lhs]) # {}

genSLRReturned == slrSucceeded \/ slrFailed

\* genSLRParsingTable alone: it fails iff one of the two situations exists
\* over the FOLLOW entries it is given, and the conflict it names exists
ConflictIsOverGivenFollow ==
  genSLRReturned =>
    /\ slrFailed <=> (shiftReduceSituation(follow) \/ reduceReduceSituation(follow))
    /\ slrErr = "shift/reduce conflict" => shiftReduceSituation(follow)
    /\ slrErr = "reduce/reduce conflict" => reduceReduceSituation(follow)
    /\ slrErr \in {"", "shift/reduce conflict", "reduce/reduce conflict"}

\* C2: genSLRParsingTable fails iff the grammar is not SLR(1): with a
\* shift/reduce conflict when a state has a transition on y and a reducible
\* p with y in FOLLOW(LHS(p)), with a reduce/reduce conflict when two
\* reducible productions of a state share a FOLLOW column, and it succeeds
\* when neither exists.
C2_FailsIffNotSLR1 ==
  genSLRReturned =>
    /\ shiftReduceSituation(LeastFollow) => slrFailed /\ slrErr = "shift/reduce conflict"
    /\ reduceReduceSituation(LeastFollow) => slrFailed /\ slrErr = "reduce/reduce conflict"
    /\ ~shiftReduceSituation(LeastFollow) /\ ~reduceReduceSituation(LeastFollow) => slrSucceeded

\* { S' -> S . }
AcceptKernel == { <<it[1], 1>> : it \in InitialKernel }

\* the ACTION cells that hold a reduce by the augmented start production, as
\* pairs of state number and column
acceptCells ==
  UNION { { <<n, e.Symbol>> : e \in { a \in ptab.Action[n] :
                                        a.ActionType = ActionTypeReduce
                                        /\ a.Production = ProductionNumStart } } :
          n \in DOMAIN ptab.Action }

\* C7 as stated: in every table built, exactly one ACTION cell holds
\* reduce(1); its column is EOF and its state is the one whose kernel is
\* { S' -> S . }.
C7_OneAcceptCellKernelIsAcceptItem ==
  slrSucceeded =>
    /\ Cardinality(acceptCells) = 1
    /\ \A c \in acceptCells :
         /\ c[2] = symbolEOF
         /\ \E k \in DOMAIN states : states[k].Num = c[1] /\ kernelOf(states[k]) = AcceptKernel

\* C7, amended: in every table built, exactly one ACTION cell holds
\* reduce(1); its column is EOF and its state is the one whose kernel
\* contains the item S' -> S . (the state the initial state goes to on S).
C7_OneAcceptCellKernelHasAcceptItem ==
  slrSucceeded =>
    /\ Cardinality(acceptCells) = 1
    /\ \A c \in acceptCells :
         /\ c[2] = symbolEOF
         /\ \E k \in DOMAIN states :
              /\ states[k].Num = c[1]
              /\ AcceptKernel \subseteq kernelOf(states[k])
              /\ \A k2 \in DOMAIN states : AcceptKernel \subseteq kernelOf(states[k2]) => k2 = k

\* a table is built whose accept state has a second kernel item
C7_Witness ==
  /\ slrSucceeded
  /\ \E c \in acceptCells : \E k \in DOMAIN states :
       /\ states[k].Num = c[1]
       /\ AcceptKernel \subseteq kernelOf(states[k])
       /\ kernelOf(states[k]) # AcceptKernel

\* the items of a list, as a set
itemSet(l) == { l[i] : i \in 1..Len(l) }

\* newKernel: the identity does not depend on the order or the repetitions of
\* the items when their four-byte prefixes are pairwise different
KernelIDOverDistinctNums ==
  \A i, j \in 1..Len(kCalls) :
    /\ kCalls[i].err = "" /\ kCalls[j].err = ""
    /\ itemSet(kCalls[i].items) = itemSet(kCalls[j].items)
    /\ \A x, y \in itemSet(kCalls[i].items) : x # y => num4[x.id] # num4[y.id]
    => kCalls[i].kernel.ID = kCalls[j].kernel.ID

\* C6: two lists with the same set of kernel items give the same kernel
\* identity, whatever the order and the repetitions of the items, also when
\* two different items agree on the four bytes LR0ItemID.num reads.
C6_KernelIDIgnoresOrderAndDuplicates ==
  \A i, j \in 1..Len(kCalls) :
    /\ kCalls[i].err = "" /\ kCalls[j].err = ""
    /\ itemSet(kCalls[i].items) = itemSet(kCalls[j].items)
    => kCalls[i].kernel.ID = kCalls[j].kernel.ID

\* ---- the symbol table on its own ----

\* the variables of run and of the other harnesses while a harness runs at
\* position p
idleAt(p) ==
  /\ root = TreeFoo
  /\ pc = p
  /\ gram = noGrammar("")
  /\ first = <<>>
  /\ fstTodo = {}
  /\ fstMore = FALSE
  /\ follow = <<>>
  /\ flwNtTodo = {}
  /\ flwCur = symbolNil
  /\ flwTodo = {}
  /\ flwMore = FALSE
  /\ num4 = <<>>
  /\ automaton = newAutomaton
  /\ currentState = stateNumInitial
  /\ knownKernels = {}
  /\ uncheckedKernels = <<>>
  /\ nextUncheckedKernels = <<>>
  /\ ukIdx = 1
  /\ expanded = <<>>
  /\ ptab = noTable
  /\ slrTodo = {}
  /\ slrErr = ""
  /\ kItems = <<>>
  /\ kCalls = <<>>
  /\ slrConflict = noConflict
  /\ tab = nilTable
  /\ stdout = <<>>
  /\ exitCode = running
  /\ runs = <<>>
  /\ psNum = newProductionSet.num
  /\ psLen = 0
  /\ psLast = 0
  /\ psFalse = 0

idleRest ==
  UNCHANGED <<root, pc, gram, firstVars, followVars, lr0Vars, slrVars, kernelVars, runVars,
              appendVars>>

SymTexts == {"a", "b", "c"}

registrations == {"registerStartSymbol", "registerNonTerminalSymbol", "registerTerminalSymbol"}

\* the registration operation of the name op
registerBy(op, t, text) ==
  CASE op = "registerStartSymbol" -> registerStartSymbol(t, text)
    [] op = "registerNonTerminalSymbol" -> registerNonTerminalSymbol(t, text)
    [] op = "registerTerminalSymbol" -> registerTerminalSymbol(t, text)

InitSymbols ==
  /\ idleAt("register")
  /\ harnessIdle

\* sym, err := symTab.register...Symbol(text)
registerCall(op, text) ==
  /\ pc = "register"
  /\ LET r == registerBy(op, stab, text)
     IN /\ stab' = r.tab
        /\ stCalls' = Append(IF Len(stCalls) = 2 THEN Tail(stCalls) ELSE stCalls,
                             [op |-> op, text |-> text, before |-> stab, sym |-> r.sym,
                              err |-> r.err, after |-> r.tab])
  /\ UNCHANGED <<baseVars, lexVars>>
  /\ idleRest

NextSymbols == \E op \in registrations : \E text \in SymTexts : registerCall(op, text)

SpecSymbols == InitSymbols /\ [][NextSymbols]_vars

\* ---- registration of new texts of one kind, up to the limit of the base ----
\* The two maps are reduced to their length: what is kept of the table is the
\* base counter of the kind and the number of texts registered.

InitBases ==
  /\ idleAt("registerNew")
  /\ stab = newSymbolTable
  /\ stCalls = <<>>
  /\ sbKind \in registrations
  /\ sbBase = symbolBaseMin
  /\ sbLen = 0
  /\ sbLast = <<>>
  /\ lexRoot = <<>>
  /\ lexGram = <<>>

\* a table whose counters stand at base, without the texts registered so far
tableAt(base) == [newSymbolTable EXCEPT !.nsymBase = base, !.tsymBase = base]

\* register...Symbol(text) for a text that is not in text2Sym
registerNewText ==
  /\ pc = "registerNew"
  /\ LET t == tableAt(sbBase)
         r == registerBy(sbKind, t, "a")
     IN /\ sbLast' = [sym |-> r.sym, err |-> r.err, base |-> sbBase, len |-> sbLen,
                      same |-> r.tab = t]
        /\ sbBase' = IF sbKind = "registerTerminalSymbol" THEN r.tab.tsymBase
                     ELSE r.tab.nsymBase
        /\ sbLen' = sbLen + Cardinality(DOMAIN r.tab.text2Sym)
  /\ UNCHANGED <<sbKind, symVars, lexVars>>
  /\ idleRest

NextBases == registerNewText

SpecBases == InitBases /\ [][NextBases]_vars

\* ---- GenGrammar with lexeme productions: unnamed/part_003 ----
\* The tree of this GenGrammar is the sequence of its production nodes; a
\* node is [head |-> text, alts |-> sequence of alternatives], an alternative
\* is the sequence of its children [Ty |-> type, text |-> text]: a symbol or a
\* pattern, each followed or not by the node of its qualifier.

ASTTypeSymbol == "symbol"
ASTTypePattern == "pattern"
ASTTypeOptional == "optional"
ASTTypeZeroOrMore == "zero_or_more"
ASTTypeOneOrMore == "one_or_more"

Elem(ty, text) == [Ty |-> ty, text |-> text]

isLexemeProduction(prodAST) ==
  /\ Len(prodAST.alts) = 1
  /\ Len(prodAST.alts[1]) = 1
  /\ prodAST.alts[1][1].Ty = ASTTypePattern

\* the grammar under construction, with the two pattern maps and the two
\* counters of GenGrammar; Patterns is keyed by the symbol
newLexGrammar ==
  [err |-> "", SymbolTable |-> newSymbolTable, Patterns |-> <<>>, pat2Sym |-> <<>>,
   ProductionSet |-> newProductionSet, AugmentedStartSymbol |-> symbolNil,
   patNum |-> 0, prodNum |-> 0]

failedWith(g, e) == [g EXCEPT !.err = e]

\* first loop: the augmented start symbol and its production
lexStart(g, rootAST) ==
  LET a == registerStartSymbol(g.SymbolTable, rootAST[1].head \o "'")
      st == registerNonTerminalSymbol(a.tab, rootAST[1].head)
      np == newProduction(a.sym, <<st.sym>>)
  IN IF a.err # "" THEN failedWith(g, a.err)
     ELSE IF st.err # "" THEN failedWith(g, st.err)
     ELSE IF np.err # "" THEN failedWith(g, np.err)
     ELSE [g EXCEPT !.SymbolTable = st.tab,
                    !.ProductionSet = append(g.ProductionSet, np.prod).ps,
                    !.AugmentedStartSymbol = a.sym]

RECURSIVE lexHeads(_, _, _)
\* second loop: the head of a lexeme production becomes a terminal, every
\* other head a non-terminal
lexHeads(g, rootAST, i) ==
  IF i > Len(rootAST) THEN g
  ELSE LET r == IF isLexemeProduction(rootAST[i])
                THEN registerTerminalSymbol(g.SymbolTable, rootAST[i].head)
                ELSE registerNonTerminalSymbol(g.SymbolTable, rootAST[i].head)
       IN IF r.err # "" THEN failedWith(g, r.err)
          ELSE lexHeads([g EXCEPT !.SymbolTable = r.tab], rootAST, i + 1)

registerLexemes(g, ast) ==
  LET lhsSym == ToSymbol(g.SymbolTable, ast.head)
      patText == ast.alts[1][1].text
  IN [g EXCEPT !.pat2Sym = (patText :> lhsSym) @@ @,
               !.Patterns = (lhsSym :> patText) @@ @]

\* registerAlternative: the symbol of the child elemAST
elemSym(g, elemAST) ==
  IF elemAST.Ty = ASTTypePattern
  THEN IF elemAST.text \in DOMAIN g.pat2Sym
       THEN [g |-> g, sym |-> g.pat2Sym[elemAST.text], err |-> ""]
       ELSE LET r == registerTerminalSymbol(g.SymbolTable, "$" \o ToString(g.patNum))
            IN IF r.err # ""
               THEN [g |-> [g EXCEPT !.patNum = @ + 1], sym |-> symbolNil, err |-> r.err]
               ELSE [g |-> [g EXCEPT !.patNum = @ + 1,
                                     !.SymbolTable = r.tab,
                                     !.pat2Sym = (elemAST.text :> r.sym) @@ @,
                                     !.Patterns = (r.sym :> elemAST.text) @@ @],
                     sym |-> r.sym, err |-> ""]
  ELSE IF elemAST.Ty = ASTTypeSymbol
  THEN LET r == registerTerminalSymbol(g.SymbolTable, elemAST.text)
       IN IF r.err # "" THEN [g |-> g, sym |-> symbolNil, err |-> r.err]
          ELSE [g |-> [g EXCEPT !.SymbolTable = r.tab], sym |-> r.sym, err |-> ""]
  ELSE [g |-> g, sym |-> symbolNil, err |-> "invalid symbol sequence"]

\* registerAlternative: the cases of the switch on the qualifier ty: the new
\* non-terminal $$n with its two productions takes the place of rhsSym
qualified(g, ty, rhsSym) ==
  LET r == registerNonTerminalSymbol(g.SymbolTable, "$$" \o ToString(g.prodNum))
      g1 == [g EXCEPT !.prodNum = @ + 1, !.SymbolTable = r.tab]
      p1 == newProduction(r.sym, IF ty = ASTTypeOptional THEN <<rhsSym>> ELSE <<rhsSym, r.sym>>)
      p2 == newProduction(r.sym, IF ty = ASTTypeOneOrMore THEN <<rhsSym>> ELSE <<>>)
  IN IF r.err # "" THEN [g |-> [g EXCEPT !.prodNum = @ + 1], sym |-> symbolNil, err |-> r.err]
     ELSE IF p1.err # "" THEN [g |-> g1, sym |-> symbolNil, err |-> p1.err]
     ELSE IF p2.err # "" THEN [g |-> g1, sym |-> symbolNil, err |-> p2.err]
     ELSE [g |-> [g1 EXCEPT !.ProductionSet =
                    append(append(g1.ProductionSet, p1.prod).ps, p2.prod).ps],
           sym |-> r.sym, err |-> ""]

RECURSIVE registerAlternative(_, _, _, _, _)
\* registerAlternative from the child i on (1-based), rhsSyms being the
\* symbols collected so far
registerAlternative(g, lhsSym, altAST, i, rhsSyms) ==
  IF i > Len(altAST)
  THEN LET np == newProduction(lhsSym, rhsSyms)
       IN IF np.err # "" THEN failedWith(g, np.err)
          ELSE [g EXCEPT !.ProductionSet = append(g.ProductionSet, np.prod).ps]
  ELSE LET e == elemSym(g, altAST[i])
       IN IF e.err # "" THEN failedWith(e.g, e.err)
          ELSE IF i + 1 > Len(altAST)
          THEN registerAlternative(e.g, lhsSym, altAST, i + 1, Append(rhsSyms, e.sym))
          ELSE IF altAST[i + 1].Ty \in {ASTTypeOptional, ASTTypeZeroOrMore, ASTTypeOneOrMore}
          THEN LET q == qualified(e.g, altAST[i + 1].Ty, e.sym)
               IN IF q.err # "" THEN failedWith(q.g, q.err)
                  ELSE registerAlternative(q.g, lhsSym, altAST, i + 2, Append(rhsSyms, q.sym))
          ELSE registerAlternative(e.g, lhsSym, altAST, i + 1, Append(rhsSyms, e.sym))

RECURSIVE registerProds(_, _, _)
\* registerProds: the alternatives j.. of the node ast
registerProds(g, ast, j) ==
  IF j > Len(ast.alts) THEN g
  ELSE LET r == registerAlternative(g, ToSymbol(g.SymbolTable, ast.head), ast.alts[j], 1, <<>>)
       IN IF r.err # "" THEN r
          ELSE registerProds(r, ast, j + 1)

RECURSIVE lexProds(_, _, _)
\* third loop: the lexemes and the productions of the nodes i..
lexProds(g, rootAST, i) ==
  IF i > Len(rootAST) THEN g
  ELSE IF isLexemeProduction(rootAST[i]) THEN lexProds(registerLexemes(g, rootAST[i]), rootAST, i + 1)
  ELSE LET r == registerProds(g, rootAST[i], 1)
       IN IF r.err # "" THEN r
          ELSE lexProds(r, rootAST, i + 1)

\* the alternatives of the input trees
LexAlts ==
  { <<>>,
    <<Elem(ASTTypePattern, "x")>>,
    <<Elem(ASTTypeSymbol, "B")>>,
    <<Elem(ASTTypeSymbol, "a")>>,
    <<Elem(ASTTypeSymbol, "a"), Elem(ASTTypeOptional, "")>>,
    <<Elem(ASTTypePattern, "x"), Elem(ASTTypeZeroOrMore, ""), Elem(ASTTypeSymbol, "B")>>,
    <<Elem(ASTTypeSymbol, "B"), Elem(ASTTypeOneOrMore, ""), Elem(ASTTypePattern, "y")>> }

MaxLexNodes == 3

\* every tree of at most MaxLexNodes production nodes with one alternative
\* each, the first head being "s", and two trees with several alternatives
LexInputs ==
  LET nodes == { Node(h, <<alt>>) : h \in HeadTexts, alt \in LexAlts }
  IN { t \in UNION { [1..k -> nodes] : k \in 1..MaxLexNodes } : t[1].head = "s" }
     \cup { << Node("s", << <<Elem(ASTTypeSymbol, "a")>>, <<>> >>),
               Node("a", << <<Elem(ASTTypePattern, "x")>>, <<Elem(ASTTypeSymbol, "B")>> >>) >>,
            << Node("s", << <<Elem(ASTTypePattern, "x")>> >>),
               Node("s", << <<Elem(ASTTypeSymbol, "s"), Elem(ASTTypeSymbol, "B")>>,
                            <<Elem(ASTTypePattern, "x")>> >>) >> }

InitLexeme ==
  /\ idleAt("GenGrammar.start")
  /\ stab = newSymbolTable
  /\ stCalls = <<>>
  /\ sbKind = "none"
  /\ sbBase = symbolBaseMin
  /\ sbLen = 0
  /\ sbLast = <<>>
  /\ lexRoot \in LexInputs
  /\ lexGram = newLexGrammar

lexRest ==
  /\ UNCHANGED <<lexRoot, symVars, baseVars>>
  /\ UNCHANGED <<root, gram, firstVars, followVars, lr0Vars, slrVars, kernelVars, runVars,
                 appendVars>>

\* GenGrammar: the loop that registers the augmented start symbol
genGrammarStart ==
  /\ pc = "GenGrammar.start"
  /\ lexGram' = lexStart(lexGram, lexRoot)
  /\ pc' = IF lexGram'.err # "" THEN "GenGrammar.failed" ELSE "GenGrammar.heads"
  /\ lexRest

\* GenGrammar: the loop that registers the heads
genGrammarHeads ==
  /\ pc = "GenGrammar.heads"
  /\ lexGram' = lexHeads(lexGram, lexRoot, 1)
  /\ pc' = IF lexGram'.err # "" THEN "GenGrammar.failed" ELSE "GenGrammar.prods"
  /\ lexRest

\* GenGrammar: the loop that generates the productions, and the return
genGrammarProds ==
  /\ pc = "GenGrammar.prods"
  /\ lexGram' = lexProds(lexGram, lexRoot, 1)
  /\ pc' = IF lexGram'.err # "" THEN "GenGrammar.failed" ELSE "GenGrammar.returned"
  /\ lexRest

NextLexeme == genGrammarStart \/ genGrammarHeads \/ genGrammarProds

SpecLexeme == InitLexeme /\ [][NextLexeme]_vars

\* ---- productionSet.append on its own ----
\* GenGrammar's calls of append, with the two maps reduced to their length:
\* what is kept of the set is ps.num, the number of productions it holds and
\* the number given to the production inserted last.

InitAppend ==
  /\ root = TreeFoo
  /\ pc = "append"
  /\ gram = noGrammar("")
  /\ first = <<>>
  /\ fstTodo = {}
  /\ fstMore = FALSE
  /\ follow = <<>>
  /\ flwNtTodo = {}
  /\ flwCur = symbolNil
  /\ flwTodo = {}
  /\ flwMore = FALSE
  /\ num4 = <<>>
  /\ automaton = newAutomaton
  /\ currentState = stateNumInitial
  /\ knownKernels = {}
  /\ uncheckedKernels = <<>>
  /\ nextUncheckedKernels = <<>>
  /\ ukIdx = 1
  /\ expanded = <<>>
  /\ ptab = noTable
  /\ slrTodo = {}
  /\ slrErr = ""
  /\ kItems = <<>>
  /\ kCalls = <<>>
  /\ slrConflict = noConflict
  /\ tab = nilTable
  /\ stdout = <<>>
  /\ exitCode = running
  /\ runs = <<>>
  /\ psNum = newProductionSet.num
  /\ psLen = 0
  /\ psLast = 0
  /\ psFalse = 0
  /\ harnessIdle

appendRest ==
  UNCHANGED <<root, pc, gram, firstVars, followVars, lr0Vars, slrVars, kernelVars, runVars,
              harnessVars>>

\* GenGrammar: prods.append(p) for the production of the augmented start
\* symbol, the first call made on a new set
appendStart ==
  /\ pc = "append"
  /\ psLen = 0
  /\ LET r == numberFor(psNum, newSymbol(symbolKindNonTerminal, TRUE, symbolBaseMin).sym)
     IN /\ psLast' = r.num
        /\ psNum' = r.next
  /\ psLen' = psLen + 1
  /\ UNCHANGED psFalse
  /\ appendRest

\* GenGrammar: prods.append(p) for an alternative that is not in the set yet
appendNew ==
  /\ pc = "append"
  /\ psLen >= 1
  /\ psLen < MaxProductions
  /\ LET r == numberFor(psNum, newSymbol(symbolKindNonTerminal, FALSE, symbolBaseMin).sym)
     IN /\ psLast' = r.num
        /\ psNum' = r.next
  /\ psLen' = psLen + 1
  /\ UNCHANGED psFalse
  /\ appendRest

\* GenGrammar: prods.append(p) for an alternative that is in the set already:
\* `return false` before anything is written
appendKnown ==
  /\ pc = "append"
  /\ psLen >= 1
  /\ psFalse < MaxCalls
  /\ psFalse' = psFalse + 1
  /\ UNCHANGED <<psNum, psLen, psLast>>
  /\ appendRest

NextAppend == appendStart \/ appendNew \/ appendKnown

SpecAppend == InitAppend /\ [][NextAppend]_vars

\* ---- two runs on one input tree ----

exited == pc = "exited"

\* the earlier runs and the current one both exited with code 0
bothSucceeded(r) == exited /\ exitCode = 0 /\ r.exitCode = 0

stateNums(a) == [k \in DOMAIN a.states |-> a.states[k].Num]

productionNums(g) == [id \in getAll(g.ProductionSet) |-> g.ProductionSet.id2Prod[id].num]

sameResults(r) ==
  /\ stateNums(r.automaton) = stateNums(automaton)
  /\ r.tab.LR.Action = tab.LR.Action
  /\ r.tab.LR.GoTo = tab.LR.GoTo
  /\ productionNums(r.gram) = productionNums(gram)
  /\ r.stdout = stdout

\* C11: two runs on the same input tree that both succeed give every kernel the
\* same state number, the same ACTION and GOTO contents, the same production
\* numbers and the same printed output, whatever order the maps are ranged in.
C11_TwoRunsSameResults ==
  \A i \in 1..Len(runs) : bothSucceeded(runs[i]) => sameResults(runs[i])

\* two successful runs in which genFirst returned the same entries agree
TwoRunsSameResultsGivenFirst ==
  \A i \in 1..Len(runs) :
    bothSucceeded(runs[i]) /\ runs[i].first = first => sameResults(runs[i])

\* two successful runs are reached
TwoRunsSucceeded == \E i \in 1..Len(runs) : bothSucceeded(runs[i])

\* two runs give every kernel the same state number and every production the
\* same number, whether they succeed or not
TwoRunsSameNumbers ==
  \A i \in 1..Len(runs) :
    exited =>
      /\ productionNums(runs[i].gram) = productionNums(gram)
      /\ stateNums(runs[i].automaton) = stateNums(automaton)

\* genSLRParsingTable was called in both runs, with the same automaton and the
\* same FOLLOW entries
sameSLRCall(r) ==
  /\ exited
  /\ r.automaton = automaton /\ r.follow = follow
  /\ r.automaton.states # <<>>
  /\ r.exitCode \in {0, 1} /\ exitCode \in {0, 1}

\* C12: on the same automaton and FOLLOW entries genSLRParsingTable reports the
\* same conflict on every run: the same kind of error for the same state,
\* symbol and pair of actions, whatever order the maps are ranged in.
C12_SameConflictEveryRun ==
  \A i \in 1..Len(runs) :
    sameSLRCall(runs[i]) =>
      /\ runs[i].slrErr = slrErr
      /\ runs[i].slrConflict = slrConflict

\* the kind of the conflict alone
SameConflictKindEveryRun ==
  \A i \in 1..Len(runs) : sameSLRCall(runs[i]) => runs[i].slrErr = slrErr

\* the state and the symbol of the conflict alone
SameConflictCellEveryRun ==
  \A i \in 1..Len(runs) :
    sameSLRCall(runs[i]) /\ runs[i].slrErr # "" /\ slrErr # "" =>
      /\ runs[i].slrConflict.State = slrConflict.State
      /\ runs[i].slrConflict.Symbol = slrConflict.Symbol

\* on the same automaton and FOLLOW entries genSLRParsingTable fails in every
\* run or in none
SameFailureEveryRun ==
  \A i \in 1..Len(runs) : sameSLRCall(runs[i]) => ((runs[i].slrErr = "") <=> (slrErr = ""))

\* genSLRParsingTable returns at the first refused entry: no table is returned
\* and the states not yet visited stay unvisited
AbortsAtFirstConflict == slrFailed => ptab = noTable /\ tab = nilTable /\ slrTodo # {}

\* C13: when genSLRParsingTable meets a conflict it returns at once with no
\* table, and the error it returns identifies the conflict: two failures with
\* the same error met the same state, the same symbol and the same two actions.
C13_ErrorIdentifiesConflict ==
  /\ AbortsAtFirstConflict
  /\ \A i \in 1..Len(runs) :
       slrFailed /\ runs[i].slrErr = slrErr => runs[i].slrConflict = slrConflict

\* ---- the phases of run ----

\* the phase a position of run belongs to: GenGrammar, the four phases of
\* GenTable in the order of its calls, GenJSON with the print, the return
phase(p) ==
  CASE p = "GenGrammar" -> 0
    [] p \in {"genFirst", "genFirst.range"} -> 1
    [] p \in {"genFollow", "genFollow.range"} -> 2
    [] p \in {"genLR0Automaton", "genLR0Automaton.range"} -> 3
    [] p \in {"genSLRParsingTable", "genSLRParsingTable.range"} -> 4
    [] p = "GenJSON" -> 5
    [] p = "doMain" -> 6
    [] OTHER -> 7

ended(p) == p \in {"failed", "panic", "exited"}

\* what each phase has left behind is there only once the phase was entered
nothingBeforeItsPhase ==
  ~ended(pc) =>
    /\ phase(pc) < 1 => first = <<>> /\ gram.err = "" /\ getAll(prods) = {}
    /\ phase(pc) >= 1 => gram.err = "" /\ getAll(prods) # {}
    /\ phase(pc) < 2 => follow = <<>>
    /\ phase(pc) >= 2 => first # <<>> /\ fstTodo = {} /\ ~fstMore
    /\ phase(pc) < 3 => automaton = newAutomaton
    /\ phase(pc) >= 3 => follow # <<>> /\ flwNtTodo = {} /\ flwTodo = {}
    /\ phase(pc) < 4 => ptab = noTable
    /\ phase(pc) >= 4 => automaton.states # <<>> /\ Len(uncheckedKernels) = 0
    /\ phase(pc) < 5 => tab = nilTable
    /\ phase(pc) >= 5 => tab # nilTable /\ tab.LR = ptab /\ slrTodo = {} /\ slrErr = ""
    /\ phase(pc) < 6 => stdout = <<>>
    /\ phase(pc) >= 6 => Len(stdout) = 1
    /\ exitCode = running

\* a failed run has no table and has printed nothing, and exits with a code
\* other than 0; a run that exits with 0 has built the table and printed once
allOrNothing ==
  /\ pc \in {"failed", "panic"} => tab = nilTable /\ stdout = <<>> /\ exitCode = running
  /\ pc = "exited" =>
       /\ exitCode # running
       /\ exitCode = 0 <=> tab # nilTable
       /\ exitCode = 0 <=> Len(stdout) = 1
       /\ exitCode # 0 => stdout = <<>>
       /\ slrFailed => exitCode # 0

\* a step stays in its phase or enters the next one, or fails; after a failure
\* the only step is the exit, which leaves every result as it is
phasedStep ==
  /\ ~ended(pc) => \/ ended(pc') /\ pc' # "exited"
                   \/ phase(pc') \in {phase(pc), phase(pc) + 1}
  /\ pc = "doMain" => pc' = "exited"
  /\ ended(pc) =>
       /\ pc' = "exited"
       /\ UNCHANGED <<gram, firstVars, followVars, lr0Vars, slrVars, tab, stdout>>

\* C14: run is phased and all-or-nothing: GenGrammar, FIRST, FOLLOW, the LR(0)
\* automaton, the SLR table and the output come in this order, each after the
\* one before it has finished without error; when a phase fails no later phase
\* runs, GenTable returns no table, nothing is printed and the exit code is
\* not 0; when all succeed the exit code is 0.
C14_PhasedAllOrNothing ==
  /\ [](nothingBeforeItsPhase /\ allOrNothing)
  /\ [][phasedStep]_vars

\* a run whose table construction failed has exited
C14_Witness ==
  /\ pc = "exited" /\ exitCode = 1
  /\ slrFailed /\ automaton.states # <<>>
  /\ tab = nilTable /\ stdout = <<>>

\* a run that printed its table has exited
RunSucceeded == pc = "exited" /\ exitCode = 0 /\ Len(stdout) = 1

\* a run that failed before genSLRParsingTable has exited
RunFailedEarly == pc = "exited" /\ exitCode # 0 /\ ~slrFailed

\* ---- e: e ADD e | NUMBER; ----

\* the state the conflict was met in has the kernel { e -> e ADD e . ; e -> e . ADD e }
conflictInAmbiguousState ==
  \E k \in DOMAIN states :
    /\ states[k].Num = slrConflict.State
    /\ itemsOfID(k) = { testItem("e", 3, <<"e", "ADD", "e">>), testItem("e", 1, <<"e", "ADD", "e">>) }

\* C15: for e: e ADD e | NUMBER; the table construction never succeeds and
\* never panics; it fails with a shift/reduce conflict, never a reduce/reduce
\* conflict, met in column ADD of the state whose kernel is
\* { e -> e ADD e . ; e -> e . ADD e }, and the run exits with a code other than 0.
C15_AmbiguousFailsShiftReduceOnADD ==
  root = TreeAmbiguous =>
    /\ tab = nilTable /\ pc # "panic" /\ stdout = <<>>
    /\ slrErr \in {"", "shift/reduce conflict"}
    /\ slrFailed =>
         /\ slrConflict.Symbol = ToSymbol(gram.SymbolTable, "ADD")
         /\ isTerminal(slrConflict.Symbol)
         /\ conflictInAmbiguousState
         /\ {slrConflict.registered.ActionType, slrConflict.refused.ActionType}
              = {ActionTypeShift, ActionTypeReduce}
    /\ pc = "exited" => slrFailed /\ exitCode # 0 /\ exitCode # running

\* the run on e: e ADD e | NUMBER; has failed and exited
C15_Witness ==
  /\ root = TreeAmbiguous
  /\ pc = "exited" /\ exitCode = 1
  /\ slrErr = "shift/reduce conflict"
  /\ conflictInAmbiguousState

\* ---- s: ; ----

symS == ToSymbol(gram.SymbolTable, "s")

\* the number of the production s -> (empty)
numEmptyS == prods.id2Prod[genProductionID(symS, <<>>)].num

\* the ACTION row of state n holds a reduce by production num in column EOF
reducesOnEOF(n, num) ==
  [Symbol |-> symbolEOF, ActionType |-> ActionTypeReduce, State |-> 0, Production |-> num]
    \in ptab.Action[n]

\* s: ; up to the automaton: FIRST(s) is nullable, FOLLOW(s) holds EOF, and
\* the automaton has exactly two states
emptyGrammarSets ==
  /\ pc \notin {"failed", "panic"} /\ ~slrFailed
  /\ genFirstReturned => first[symS].empty /\ first[symS].symbols = {}
  /\ genFollowReturned => follow[symS].eof /\ follow[symS].symbols = {}
  /\ genLR0Returned => Cardinality(DOMAIN states) = 2
                       /\ { states[k].Num : k \in DOMAIN states } = {0, 1}

\* C16 as stated: for s: ; FIRST(s) is nullable, FOLLOW(s).eof is true, the
\* automaton has exactly two states, and state 1 reduces s -> (empty) on EOF.
C16_StateOneReducesEmpty ==
  root = TreeEmpty =>
    /\ emptyGrammarSets
    /\ slrSucceeded => reducesOnEOF(1, numEmptyS)

\* C16 amended: for s: ; FIRST(s) is nullable, FOLLOW(s).eof is true, the
\* automaton has exactly two states; the initial state 0, whose closure holds
\* s -> . , reduces s -> (empty) on EOF and goes to state 1 on s, and state 1,
\* whose kernel is { s' -> s . }, reduces s' -> s on EOF; there is no other
\* entry.
C16_StateZeroReducesEmpty ==
  root = TreeEmpty =>
    /\ emptyGrammarSets
    /\ slrSucceeded =>
         /\ numEmptyS = productionNumMin
         /\ ptab.InitialState = 0
         /\ ptab.Action[0] = {[Symbol |-> symbolEOF, ActionType |-> ActionTypeReduce,
                               State |-> 0, Production |-> numEmptyS]}
         /\ ptab.GoTo[0] = {[Symbol |-> symS, State |-> 1]}
         /\ ptab.Action[1] = {[Symbol |-> symbolEOF, ActionType |-> ActionTypeReduce,
                               State |-> 0, Production |-> ProductionNumStart]}
         /\ ptab.GoTo[1] = {}
         /\ \E k \in DOMAIN states :
              states[k].Num = 1 /\ itemsOfID(k) = { testItem("s'", 1, <<"s">>) }

\* the table of s: ; has been built
C16_Witness ==
  /\ root = TreeEmpty
  /\ slrSucceeded /\ pc = "exited"
  /\ reducesOnEOF(0, numEmptyS)

\* ---- production numbers ----

\* C17: after any sequence of appends made by GenGrammar the productions are
\* numbered 1..|productions|: the production of the augmented start symbol,
\* inserted first, has number 1, the k-th production inserted has number k, no
\* production has number 0, and a rejected duplicate consumes no number.
C17_NumbersAreOneToCount ==
  psLen >= 1 =>
    /\ psLast = psLen
    /\ psLast # 0
    /\ psLen >= 2 => psLast >= productionNumMin

\* the numbers of the production sets GenGrammar builds from the input trees
\* of the model: pairwise distinct, 1 for the production of the augmented start
\* symbol, and exactly 1..|productions|
ProductionNumsDense ==
  gram.err = "" /\ getAll(prods) # {} =>
    /\ \A p, q \in P : p.num = q.num => p = q
    /\ \A p \in P : isStart(p.lhs) <=> p.num = ProductionNumStart
    /\ { p.num : p \in P } = 1..Cardinality(P)
    /\ prods.num = Cardinality(P) + 1

\* ---- duplicate productions ----

\* the set holds no two productions with the same LHS and RHS, in neither map
noTwoAlike ==
  /\ \A p, q \in P : p.lhs = q.lhs /\ p.rhs = q.rhs => p = q
  /\ \A l \in DOMAIN prods.lhs2Prods :
       \A i, j \in 1..Len(prods.lhs2Prods[l]) :
         prods.lhs2Prods[l][i].rhs = prods.lhs2Prods[l][j].rhs => i = j
  /\ \A l \in DOMAIN prods.lhs2Prods :
       { prods.lhs2Prods[l][i] : i \in 1..Len(prods.lhs2Prods[l]) } = { p \in P : p.lhs = l }

\* C18: append of a production whose LHS and RHS equal those of a production
\* of the set returns false and leaves both maps and the next number as they
\* are; the set GenGrammar builds never holds two productions with the same
\* LHS and RHS, and s: A B; s: A B; yields one production besides the one of
\* the augmented start symbol.
C18_AppendRejectsDuplicate ==
  gram.err = "" /\ getAll(prods) # {} =>
    /\ \A p \in P : append(prods, newProduction(p.lhs, p.rhs).prod) = [ps |-> prods, ok |-> FALSE]
    /\ noTwoAlike
    /\ root = TreeDuplicate =>
         /\ Cardinality(P) = 2
         /\ { p.rhs : p \in { q \in P : ~isStart(q.lhs) } }
              = { <<ToSymbol(gram.SymbolTable, "A"), ToSymbol(gram.SymbolTable, "B")>> }
         /\ prods.num = productionNumMin + 1

\* GenGrammar has returned for s: A B; s: A B;
C18_Witness ==
  /\ root = TreeDuplicate
  /\ pc = "genFirst" /\ gram.err = ""
  /\ Cardinality(P) = 2
  /\ append(prods, newProduction(ToSymbol(gram.SymbolTable, "s"),
                                  <<ToSymbol(gram.SymbolTable, "A"),
                                    ToSymbol(gram.SymbolTable, "B")>>).prod).ok = FALSE

\* ---- GenGrammar ----

GenGrammarReturned == pc # "GenGrammar" /\ pc # "newKernel" /\ pc # "append"

symTab == gram.SymbolTable

\* the texts of a sequence of symbols
textsOf(rhs) == [i \in 1..Len(rhs) |-> symTab.sym2Text[rhs[i]]]

\* the head texts of the input tree
headTexts == { root[i].head : i \in 1..Len(root) }

\* the names that occur in the alternatives of the input tree
altNames ==
  UNION { UNION { { root[i].alts[j][k] : k \in 1..Len(root[i].alts[j]) } :
                  j \in 1..Len(root[i].alts) } : i \in 1..Len(root) }

augmentedStartText == root[1].head \o "'"

RECURSIVE altsOf(_, _)
\* the alternatives of the nodes i.. of the input tree whose head is h, in order
altsOf(h, i) ==
  IF i > Len(root) THEN <<>>
  ELSE (IF root[i].head = h THEN root[i].alts ELSE <<>>) \o altsOf(h, i + 1)

RECURSIVE firstOccurrences(_, _)
\* a sequence without the repetitions of its elements
firstOccurrences(seq, i) ==
  IF i > Len(seq) THEN <<>>
  ELSE IF \E j \in 1..(i - 1) : seq[j] = seq[i] THEN firstOccurrences(seq, i + 1)
  ELSE <<seq[i]>> \o firstOccurrences(seq, i + 1)

\* C19: GenGrammar registers S' (the head text of the first production node
\* followed by an apostrophe) as the start symbol, sets AugmentedStartSymbol to
\* it and inserts the single production S' -> S; the productions of every head
\* are the alternatives of the input with that head, in order, with the same
\* symbol sequence (an alternative met again yields no second production), and
\* an empty alternative becomes an empty production.
C19_GenGrammarAugmentsAndKeepsAlternatives ==
  GenGrammarReturned =>
    /\ gram.err = ""
    /\ isStart(gram.AugmentedStartSymbol)
    /\ ToSymbol(symTab, augmentedStartText) = gram.AugmentedStartSymbol
    /\ symTab.sym2Text[gram.AugmentedStartSymbol] = augmentedStartText
    /\ \A x \in DOMAIN symTab.sym2Text : isStart(x) => x = gram.AugmentedStartSymbol
    /\ LET l == findByLHS(prods, gram.AugmentedStartSymbol)
       IN /\ Len(l) = 1
          /\ l[1].lhs = gram.AugmentedStartSymbol
          /\ l[1].rhs = <<ToSymbol(symTab, root[1].head)>>
          /\ textsOf(l[1].rhs) = <<root[1].head>>
    /\ DOMAIN prods.lhs2Prods =
         {gram.AugmentedStartSymbol} \cup { ToSymbol(symTab, h) : h \in headTexts }
    /\ \A h \in headTexts :
         LET l == findByLHS(prods, ToSymbol(symTab, h))
             alts == firstOccurrences(altsOf(h, 1), 1)
         IN /\ Len(l) = Len(alts)
            /\ \A i \in 1..Len(l) :
                 /\ l[i].lhs = ToSymbol(symTab, h)
                 /\ textsOf(l[i].rhs) = alts[i]
                 /\ l[i].rhsLen = Len(alts[i])
                 /\ alts[i] = <<>> <=> isEmpty(l[i])
                 /\ l[i].id \in getAll(prods) /\ prods.id2Prod[l[i].id] = l[i]
    /\ \A p \in P : \E i \in 1..Len(findByLHS(prods, p.lhs)) : findByLHS(prods, p.lhs)[i] = p

\* GenGrammar has returned for a tree with several alternatives of one head,
\* one of them empty
C19_Witness ==
  /\ root = TreeNullableChain
  /\ pc = "genFirst"
  /\ Len(findByLHS(prods, ToSymbol(symTab, "a"))) = 2
  /\ isEmpty(findByLHS(prods, ToSymbol(symTab, "a"))[2])
  /\ Len(findByLHS(prods, gram.AugmentedStartSymbol)) = 1

\* C20: after GenGrammar a symbol is a non-terminal iff its text is the head
\* of a production node of the input or the text of the augmented start
\* symbol; every other name of an alternative is a terminal, also when the
\* name is used in an alternative of an earlier node than the one it heads.
C20_NonTerminalIffHead ==
  GenGrammarReturned =>
    /\ gram.err = ""
    /\ DOMAIN symTab.text2Sym = headTexts \cup altNames \cup {augmentedStartText}
    /\ \A text \in DOMAIN symTab.text2Sym :
         /\ isNonTerminal(symTab.text2Sym[text]) <=> text \in headTexts \cup {augmentedStartText}
         /\ isTerminal(symTab.text2Sym[text]) <=> text \notin headTexts \cup {augmentedStartText}
         /\ symTab.sym2Text[symTab.text2Sym[text]] = text
    /\ \A name \in altNames \ headTexts : isTerminal(ToSymbol(symTab, name))
    /\ \A name \in altNames \cap headTexts : isNonTerminal(ToSymbol(symTab, name))
    /\ \A p \in P : \A i \in 1..Len(p.rhs) :
         isNonTerminal(p.rhs[i]) <=> symTab.sym2Text[p.rhs[i]] \in headTexts

\* GenGrammar has returned for a tree in which a name is used in an
\* alternative of an earlier node than the one it heads
C20_Witness ==
  /\ pc = "genFirst"
  /\ \E i \in 1..Len(root) : \E j \in 1..(i - 1) : \E k \in 1..Len(root[j].alts) :
       /\ root[i].head \notin { root[m].head : m \in 1..j }
       /\ \E n \in 1..Len(root[j].alts[k]) : root[j].alts[k][n] = root[i].head
       /\ isNonTerminal(ToSymbol(symTab, root[i].head))
  /\ \E name \in altNames : isTerminal(ToSymbol(symTab, name))

\* ---- the symbol table ----

\* C21: calling the same registration operation twice with the same text
\* returns the same symbol both times, and the second call leaves both maps
\* and both base counters as they are.
C21_RegistrationIsIdempotent ==
  /\ \A op \in registrations : \A text \in SymTexts :
       LET r1 == registerBy(op, stab, text)
           r2 == registerBy(op, r1.tab, text)
       IN r2.sym = r1.sym /\ r2.err = r1.err /\ r2.tab = r1.tab
  /\ Len(stCalls) = 2 /\ stCalls[1].op = stCalls[2].op /\ stCalls[1].text = stCalls[2].text =>
       /\ stCalls[2].sym = stCalls[1].sym
       /\ stCalls[2].after = stCalls[2].before

\* an operation has been called twice with a text that was new to the table
C21_Witness ==
  /\ Len(stCalls) = 2
  /\ stCalls[1].op = stCalls[2].op /\ stCalls[1].text = stCalls[2].text
  /\ stCalls[1].text \notin DOMAIN stCalls[1].before.text2Sym
  /\ stCalls[2].sym = stCalls[1].sym /\ stCalls[2].sym # symbolNil
  /\ stab = stCalls[1].after

\* C22: after any sequence of registration calls text2Sym and sym2Text are
\* inverse of each other: no two texts share a symbol, ToText(ToSymbol(t)) = t
\* for every registered text and ToSymbol(ToText(s)) = s for every registered
\* symbol.
C22_MapsAreInverse ==
  /\ \A t1, t2 \in DOMAIN stab.text2Sym : stab.text2Sym[t1] = stab.text2Sym[t2] => t1 = t2
  /\ \A text \in DOMAIN stab.text2Sym : ToText(stab, ToSymbol(stab, text)) = text
  /\ \A sym \in DOMAIN stab.sym2Text : ToSymbol(stab, ToText(stab, sym)) = sym
  /\ \A text \in SymTexts : text \notin DOMAIN stab.text2Sym => ToSymbol(stab, text) = symbolNil

\* a start symbol and two terminals are in the table, each
\* registered by its own operation
C22_Witness ==
  /\ DOMAIN stab.text2Sym = SymTexts
  /\ \E t1, t2, t3 \in SymTexts :
       /\ describe(stab.text2Sym[t1]).isStart
       /\ describe(stab.text2Sym[t2]).kind = symbolKindTerminal
       /\ describe(stab.text2Sym[t3]).kind = symbolKindTerminal /\ t2 # t3
  /\ Len(stCalls) = 2 /\ stCalls[2].op = "registerTerminalSymbol"
  /\ stCalls[2].before # stCalls[2].after

\* the kind under which text is registered in the table t
kindIn(t, text) == describe(t.text2Sym[text]).kind

\* the call c registers a known text under the other kind
otherKindCall(c) ==
  /\ c.text \in DOMAIN c.before.text2Sym
  /\ \/ c.op = "registerTerminalSymbol" /\ kindIn(c.before, c.text) = symbolKindNonTerminal
     \/ c.op = "registerNonTerminalSymbol" /\ kindIn(c.before, c.text) = symbolKindTerminal

\* C23: registerTerminalSymbol on a text registered as a non-terminal, and
\* registerNonTerminalSymbol on a text registered as a terminal, fail with an
\* error and leave the table unchanged.
C23_OtherKindIsAnError ==
  \A i \in DOMAIN stCalls :
    otherKindCall(stCalls[i]) => stCalls[i].err # "" /\ stCalls[i].after = stCalls[i].before

\* what the code does on such a call: it returns the symbol of the other kind
\* without an error, and the table and the kind of the text stay as they were
OtherKindReturnsKnownSymbol ==
  \A i \in DOMAIN stCalls :
    otherKindCall(stCalls[i]) =>
      /\ stCalls[i].err = ""
      /\ stCalls[i].sym = stCalls[i].before.text2Sym[stCalls[i].text]
      /\ stCalls[i].after = stCalls[i].before

\* the symbol of a registered text never changes
KindNeverChanges ==
  [][\A text \in DOMAIN stab.text2Sym :
       text \in DOMAIN stab'.text2Sym /\ stab'.text2Sym[text] = stab.text2Sym[text]]_vars

startSymbolsOf(t) == {sym \in DOMAIN t.sym2Text : describe(sym).isStart}

\* C24: at most one symbol of the table has the start flag; a
\* registerStartSymbol call with another text once a start symbol exists
\* creates no second one.
C24_AtMostOneStartSymbol == Cardinality(startSymbolsOf(stab)) <= 1

\* what holds of the start flag: only registerStartSymbol sets it, and a
\* call with the text of a start symbol returns that symbol
StartFlagOnlyByRegisterStart ==
  \A i \in DOMAIN stCalls :
    LET c == stCalls[i]
    IN /\ startSymbolsOf(c.after) # startSymbolsOf(c.before) =>
            /\ c.op = "registerStartSymbol"
            /\ c.text \notin DOMAIN c.before.text2Sym
            /\ startSymbolsOf(c.after) = startSymbolsOf(c.before) \cup {c.sym}
       /\ c.text \in DOMAIN c.before.text2Sym => c.sym = c.before.text2Sym[c.text]

baseOf(sym) == describe(sym).base

\* C25: after GenGrammar the augmented start symbol is the non-terminal with
\* base 1, every other non-terminal has base >= 2, every registered terminal
\* has base >= 2, so that none shares base 1 with EOF, and no registered
\* symbol has base 0.
C25_BasesRespectReservations ==
  GenGrammarReturned =>
    /\ isNonTerminal(gram.AugmentedStartSymbol) /\ baseOf(gram.AugmentedStartSymbol) = 1
    /\ \A sym \in DOMAIN symTab.sym2Text :
         /\ baseOf(sym) # 0
         /\ isNonTerminal(sym) /\ sym # gram.AugmentedStartSymbol => baseOf(sym) >= 2
         /\ isTerminal(sym) => baseOf(sym) >= 2

\* the part that holds: the bases of the non-terminals, no base 0, and EOF
\* itself is not registered
NonTerminalBasesRespectReservations ==
  GenGrammarReturned =>
    /\ isNonTerminal(gram.AugmentedStartSymbol) /\ baseOf(gram.AugmentedStartSymbol) = 1
    /\ symbolEOF \notin DOMAIN symTab.sym2Text
    /\ \A sym \in DOMAIN symTab.sym2Text :
         /\ baseOf(sym) # 0
         /\ isNonTerminal(sym) /\ sym # gram.AugmentedStartSymbol => baseOf(sym) >= 2

\* what the code does: the terminals have the bases 1.. in the order of their
\* registration, so a grammar with a terminal has one with the base of EOF
FirstTerminalHasBaseOfEOF ==
  GenGrammarReturned =>
    LET terms == {sym \in DOMAIN symTab.sym2Text : isTerminal(sym)}
    IN /\ {baseOf(sym) : sym \in terms} = 1..Cardinality(terms)
       /\ symTab.tsymBase = symbolBaseMin + Cardinality(terms)

\* C26: registering a new text when the base counter of its kind has passed
\* 16383 returns an error and the nil symbol and leaves the table unchanged;
\* every registered symbol has a base in 1..16383, and its kind and start bits
\* are the ones of the operation.
C26_BaseLimitIsAnError ==
  /\ sbBase \in symbolBaseMin..(symbolBaseMax + 1)
  /\ sbLen = sbBase - symbolBaseMin
  /\ sbLast # <<>> =>
       IF sbLast.base > symbolBaseMax
       THEN /\ sbLast.err # "" /\ sbLast.sym = symbolNil /\ sbLast.same
            /\ sbBase = sbLast.base /\ sbLen = sbLast.len
       ELSE /\ sbLast.err = ""
            /\ baseOf(sbLast.sym) = sbLast.base
            /\ sbLast.base \in symbolBaseMin..symbolBaseMax
            /\ sbLast.sym \in 1..65535
            /\ describe(sbLast.sym).kind = (IF sbKind = "registerTerminalSymbol"
                                            THEN symbolKindTerminal ELSE symbolKindNonTerminal)
            /\ describe(sbLast.sym).isStart = (sbKind = "registerStartSymbol")
            /\ ~describe(sbLast.sym).isEOF
            /\ sbBase = sbLast.base + 1 /\ sbLen = sbLast.len + 1

\* a terminal is refused after 16,383 terminals have been registered
C26_Witness ==
  /\ sbKind = "registerTerminalSymbol"
  /\ sbLen = symbolBaseMax
  /\ sbLast # <<>> /\ sbLast.err # "" /\ sbLast.sym = symbolNil

\* ---- the initial state ----

\* no shift of ACTION and no entry of GOTO of the table t has the state n as
\* its target
neverTarget(t, n) ==
  /\ \A st \in DOMAIN t.Action : \A e \in t.Action[st] :
       e.ActionType = ActionTypeShift => e.State # n
  /\ \A st \in DOMAIN t.GoTo : \A e \in t.GoTo[st] : e.State # n

\* C27: no transition of the automaton leads to the initial state: no
\* Next[symbol] of any state is the identity of the initial kernel, the
\* initial state has number 0 and no other state has it, and state 0 is the
\* target of no shift of ACTION and of no entry of GOTO.
C27_InitialStateIsNoTarget ==
  /\ \A k \in DOMAIN automaton.states : \A sym \in DOMAIN automaton.states[k].Next :
       automaton.states[k].Next[sym] # automaton.initialState
  /\ \A k \in DOMAIN automaton.states :
       automaton.states[k].Num = stateNumInitial <=> k = automaton.initialState
  /\ ptab.InitialState = stateNumInitial
  /\ neverTarget(ptab, stateNumInitial)
  /\ slrSucceeded => tab.LR.InitialState = stateNumInitial /\ neverTarget(tab.LR, stateNumInitial)

\* the table of the expression grammar has been built: it has shifts and
\* GOTO entries, and a state that is reached on the head of the first
\* production node, as the initial state is left on it
C27_Witness ==
  /\ root = TreeExpr
  /\ slrSucceeded /\ pc = "exited"
  /\ \E st \in DOMAIN tab.LR.Action : st # stateNumInitial /\
       \E e \in tab.LR.Action[st] : e.ActionType = ActionTypeShift
  /\ \E st \in DOMAIN tab.LR.GoTo : st # stateNumInitial /\ tab.LR.GoTo[st] # {}
  /\ tab.LR.GoTo[stateNumInitial] # {}

\* ---- the lookups of GenTable ----

\* the non-terminals of the grammar: the heads and the non-terminals of the
\* right-hand sides
nonTerminalsOf(ps) ==
  LET all == { ps.id2Prod[id] : id \in getAll(ps) }
  IN { p.lhs : p \in all } \cup
     UNION { { p.rhs[i] : i \in { j \in 1..Len(p.rhs) : isNonTerminal(p.rhs[j]) } } : p \in all }

\* the kernels the automaton holds or has still to expand
kernelItems ==
  UNION { { automaton.states[k].Items[i] : i \in 1..Len(automaton.states[k].Items) } :
          k \in DOMAIN automaton.states }
  \cup UNION { { uncheckedKernels[n].Items[i] : i \in 1..Len(uncheckedKernels[n].Items) } :
               n \in 1..Len(uncheckedKernels) }
  \cup UNION { { nextUncheckedKernels[n].Items[i] : i \in 1..Len(nextUncheckedKernels[n].Items) } :
               n \in 1..Len(nextUncheckedKernels) }

lookupsNeverMiss ==
  GenGrammarReturned =>
    /\ gram.err = ""
    /\ \A sym \in nonTerminalsOf(prods) : Len(findByLHS(prods, sym)) > 0
    /\ pc # "genFirst" => nonTerminalsOf(prods) \subseteq DOMAIN first
    /\ pc \notin {"genFirst", "genFirst.range", "genFollow"} =>
         nonTerminalsOf(prods) \subseteq DOMAIN follow
    /\ \A item \in kernelItems :
         /\ item.prod \in getAll(prods)
         /\ ~isNil(item.dottedSymbol) /\ isNonTerminal(item.dottedSymbol) =>
              Len(findByLHS(prods, item.dottedSymbol)) > 0
    /\ \A k \in DOMAIN automaton.states : automaton.states[k].Reducible \subseteq getAll(prods)
    /\ genLR0Returned =>
         /\ automaton.initialState \in DOMAIN automaton.states
         /\ \A k \in DOMAIN automaton.states : \A sym \in DOMAIN automaton.states[k].Next :
              automaton.states[k].Next[sym] \in DOMAIN automaton.states
         /\ \A k \in DOMAIN automaton.states :
              automaton.states[k].Num \in 0..(Cardinality(DOMAIN automaton.states) - 1)

\* C30: the lookups of GenTable never miss: every non-terminal of an RHS or
\* after a dot has a production, a FIRST entry and a FOLLOW entry, every
\* production id of an item or of a Reducible set is in the production set;
\* the run never dereferences a missing entry, and it fails only with a
\* shift/reduce or a reduce/reduce conflict.
C30_FailsOnlyWithConflict ==
  /\ lookupsNeverMiss
  /\ pc # "panic"
  /\ exitCode \in {running, 0, 1}
  /\ pc = "failed" \/ exitCode = 1 =>
       /\ slrErr \in {"shift/reduce conflict", "reduce/reduce conflict"}
       /\ slrTodo # {}

\* a run has failed with each of the two conflicts after all its lookups
C30_Witness ==
  /\ exited /\ exitCode = 1
  /\ \/ root = TreeReduceReduce /\ slrErr = "reduce/reduce conflict"
     \/ root = TreeAmbiguous /\ slrErr = "shift/reduce conflict"
  /\ nonTerminalsOf(prods) \subseteq DOMAIN follow
  /\ Cardinality(DOMAIN automaton.states) > 1

\* ---- termination ----

\* one more pass of genFirst over the productions would change no entry
firstPassChangesNothing ==
  \A id \in getAll(prods) :
    LET prod == prods.id2Prod[id]
        r == genProdFirstEntry(first, first[prod.lhs], prod)
    IN r.err = "" /\ r.acc = first[prod.lhs]

\* one more pass of genFollow over the non-terminals would change no entry
followPassChangesNothing ==
  \A ntsym \in DOMAIN follow :
    /\ isStart(ntsym) => follow[ntsym].eof
    /\ \A id \in getAll(prods) :
         LET r == followScanRhs(first, follow, follow[ntsym], ntsym, prods.id2Prod[id], 1, FALSE)
         IN r.err = "" /\ r.e = follow[ntsym]

\* a step changes the entries of FIRST and FOLLOW only by adding to them
entriesOnlyGrow ==
  /\ \A sym \in DOMAIN first :
       /\ sym \in DOMAIN first'
       /\ first[sym].symbols \subseteq first'[sym].symbols
       /\ first[sym].empty => first'[sym].empty
  /\ \A sym \in DOMAIN follow :
       /\ sym \in DOMAIN follow'
       /\ follow[sym].symbols \subseteq follow'[sym].symbols
       /\ follow[sym].eof => follow'[sym].eof

\* no two positions of a sequence hold the same value
noRepetition(seq) == \A i, j \in 1..Len(seq) : seq[i] = seq[j] => i = j

kernelIDs(kernels) == [i \in 1..Len(kernels) |-> kernels[i].ID]

\* the closure of every kernel that waits holds each item once, and no
\* kernel waits twice or waits after it was expanded
worklistsEnqueueOnce ==
  /\ \A n \in ukIdx..Len(uncheckedKernels) :
       LET items == genClosure(uncheckedKernels[n], prods)
       IN noRepetition([i \in 1..Len(items) |-> items[i].id])
  /\ noRepetition(expanded \o kernelIDs(SubSeq(uncheckedKernels, ukIdx, Len(uncheckedKernels)))
                  \o kernelIDs(nextUncheckedKernels))
  /\ knownKernels = { expanded[i] : i \in 1..Len(expanded) }
                      \cup { uncheckedKernels[i].ID : i \in 1..Len(uncheckedKernels) }
                      \cup { nextUncheckedKernels[i].ID : i \in 1..Len(nextUncheckedKernels) }

\* GenTable has returned its table or an error
GenTableReturned == pc \in {"GenJSON", "failed", "panic"}

\* every call of GenTable returns
GenTableTerminates == <>GenTableReturned

LoopsOnlyAdd == [][entriesOnlyGrow]_vars

WorklistsEnqueueOnce == []worklistsEnqueueOnce

\* genFollow returns after a pass that changed nothing
FollowStopsAtUnchangedPass == [](pc = "genLR0Automaton" => followPassChangesNothing)

\* genFirst returns after a pass that changed nothing
FirstStopsAtUnchangedPass == [](pc = "genFollow" => firstPassChangesNothing)

\* C28: the run ends for every grammar, left-recursive, mutually recursive
\* and nullable-cycle grammars included: the loops of genFirst and genFollow
\* only add to the entries and stop at the first pass that changes nothing,
\* the closure adds each item once and the automaton loop enqueues each
\* kernel once.
C28_TerminatesAtFixedPoints ==
  /\ GenTableTerminates
  /\ LoopsOnlyAdd
  /\ WorklistsEnqueueOnce
  /\ FollowStopsAtUnchangedPass
  /\ FirstStopsAtUnchangedPass

\* ---- the LHS of a production ----

lexProductions ==
  { lexGram.ProductionSet.id2Prod[id] : id \in getAll(lexGram.ProductionSet) }

lexReturned == pc = "GenGrammar.returned"

\* C29: after GenGrammar on any input tree every production of the
\* production set has a non-terminal LHS, also in the GenGrammar that takes a
\* production whose only alternative is one pattern for a lexeme and makes
\* its head a terminal, when the same head heads an ordinary production too.
C29_EveryLHSIsNonTerminal ==
  lexReturned => \A p \in lexProductions : isNonTerminal(p.lhs)

\* the same for the GenGrammar of grammar.go, where it holds
EveryLHSIsNonTerminal == GenGrammarReturned => \A p \in P : isNonTerminal(p.lhs)

\* what holds in the GenGrammar with lexemes: the LHS of a production is a
\* terminal only if its head text heads a lexeme production that is not the
\* first node's, and the non-terminals made for qualifiers are non-terminals
LHSIsTerminalOnlyForLexemeHead ==
  lexReturned =>
    \A p \in lexProductions :
      \/ isNonTerminal(p.lhs)
      \/ \E i \in 2..Len(lexRoot) :
           /\ isLexemeProduction(lexRoot[i])
           /\ lexRoot[i].head # lexRoot[1].head
           /\ lexGram.SymbolTable.sym2Text[p.lhs] = lexRoot[i].head
           /\ \E j \in 1..Len(lexRoot) :
                lexRoot[j].head = lexRoot[i].head /\ ~isLexemeProduction(lexRoot[j])

====
